---- MODULE Spec2Model ----
(***************************************************************************)
(* Launch state machine of a SEV / SEV-ES / SEV-SNP guest, modelled from   *)
(* target/i386/sev.c.  One action per handler or API entry point; every    *)
(* platform command (sev_ioctl), private conversion (kvm_convert_memory)   *)
(* and process exit is recorded so that orderings can be stated.           *)
(***************************************************************************)
EXTENDS Integers, Sequences, FiniteSets, TLC

VARIABLES
    guest,            \* "sev" | "es" | "snp": type of the cgs object / policy
    kernel_hashes,    \* SevCommonState.kernel_hashes
    state,            \* SevCommonState.state
    alive,            \* FALSE once exit(1) (or error_fatal) has been reached
    sev_fd,           \* TRUE once open(devname) succeeded
    measurement,      \* SevGuestState.measurement, 0 = NULL
    cmds,             \* platform commands and conversions issued, in order
    launch_update,    \* static QTAILQ launch_update
    sev_mig_blocker,  \* TRUE once migrate_add_blocker succeeded
    notifiers,        \* which callbacks sev_kvm_init registered
    init_called,      \* sev_kvm_init has run
    machine_done,     \* the machine-init-done notifier list has been run
    nwrites,          \* sev_encrypt_flash calls made in LAUNCH_UPDATE so far
    nsecrets,         \* sev_inject_launch_secret calls made in LAUNCH_SECRET so far
    last,             \* outcome of the latest operation
    launch_vmsa,      \* SevCommonState.launch_vmsa as seen from tqh_first
    vmsa_tail_linked, \* launch_vmsa.tqh_circ.tql_prev is not NULL
    cpu_env,          \* per CPU index, the CPU state (CPUX86State)
    seg,              \* a segment attribute taken through apply and capture
    shared_buf,       \* the guest's GHCB shared buffer (struct snp_psc_desc)
    psc,              \* the page-state-change VM exit handled last
    ext_req,          \* the extended guest request handled last
    hashes            \* the kernel hashes: guest area, SNP staging buffer

\* The state of the components that work after, or apart from, the launch.
runtime_vars == <<seg, shared_buf, psc, ext_req, hashes>>

\* The state of the launch machine and of the VMSA store.
launch_vars == <<guest, kernel_hashes, state, alive, sev_fd, measurement, cmds,
                 launch_update, sev_mig_blocker, notifiers, init_called,
                 machine_done, nwrites, nsecrets, last, launch_vmsa,
                 vmsa_tail_linked, cpu_env>>

vars == <<guest, kernel_hashes, state, alive, sev_fd, measurement, cmds,
          launch_update, sev_mig_blocker, notifiers, init_called,
          machine_done, nwrites, nsecrets, last, launch_vmsa,
          vmsa_tail_linked, cpu_env, seg, shared_buf, psc, ext_req, hashes>>

(***************************************************************************)
(* Bounds of the model.                                                    *)
(***************************************************************************)
\* sev_encrypt_flash calls in LAUNCH_UPDATE plus sev_inject_launch_secret calls
\* in LAUNCH_SECRET that one behaviour may contain.
MaxOps == 2
MaxMeasureLen == 1
\* Length of the command log up to which the machine-init-done handler is
\* invoked again in LAUNCH_UPDATE (SpecReentrant).
MaxCmds == 5
\* Number of CPUs and of distinct save-area contents (SpecVmsa).
MaxCpus == 2
MaxCtx == 2
\* Number of entries of the page-state-change descriptor in the model; it
\* stands for VMGEXIT_PSC_MAX_ENTRY (253): the entries have index
\* 0 .. MaxPscEntry - 1.
MaxPscEntry == 2
\* Largest value of a header field (cur_entry, end_entry) in the model; it
\* stands for 0xFFFF: header arithmetic wraps modulo MaxHdr + 1.
MaxHdr == 2
\* Largest page count a guest passes with an extended guest request.
MaxNpages == 3

(***************************************************************************)
(* SevState (the values the code stores in SevCommonState.state).          *)
(***************************************************************************)
SEV_STATE_UNINIT == 0
SEV_STATE_LAUNCH_UPDATE == 1
SEV_STATE_LAUNCH_SECRET == 2
SEV_STATE_RUNNING == 3

GuestTypes == {"sev", "es", "snp"}

\* A uint64_t length, kept as its two 32-bit halves: value = hi * 2^32 + lo.
U64(h, l) == [hi |-> h, lo |-> l]
ZeroLen == U64(0, 0)
PageLen == U64(0, 1)
NonZero(len) == len.hi # 0 \/ len.lo # 0
\* Passing a uint64_t to a uint32_t parameter keeps the low half.
Trunc32(len) == U64(0, len.lo)

\* Inputs of sev_encrypt_flash(gpa, ptr, len): guest address, host pointer
\* (0 = NULL), length.  Two well-formed writes at different addresses, one of
\* 2^32 bytes, one with a NULL pointer and one of zero length.
HvaOf(gpa) == 10 + gpa
WriteInputs ==
    { <<1, HvaOf(1), U64(0, 1)>>,
      <<2, HvaOf(2), U64(0, 1)>>,
      <<1, HvaOf(1), U64(1, 0)>>,
      <<1, 0, U64(0, 1)>>,
      <<2, HvaOf(2), U64(0, 0)>> }

sev_snp_enabled == guest = "snp"
sev_es_enabled == sev_snp_enabled \/ guest = "es"

sev_check_state(s) == state = s

Cmd(c, ok) ==
    [cmd |-> c, ok |-> ok, gpa |-> 0, hva |-> 0, len |-> ZeroLen, type |-> "-"]
DataCmd(c, ok, gpa, hva, len, type) ==
    [cmd |-> c, ok |-> ok, gpa |-> gpa, hva |-> hva, len |-> len, type |-> type]

\* Outcome of the latest operation: its name, return value, the kind of error
\* reported through errp, (for sev_encrypt_flash) its arguments and (for
\* sev_kvm_init) the check that made it leave, "-" elsewhere.
NoArg == <<0, 0, ZeroLen>>
ResultOf(op, rc, err, arg) ==
    [op |-> op, rc |-> rc, err |-> err, arg |-> arg, why |-> "-"]
Result(op, rc, err) == ResultOf(op, rc, err, NoArg)

CpuIndexes == 0..(MaxCpus - 1)

\* The launch state after object construction.  The object is zero-filled and
\* sev_common_instance_init does not QTAILQ_INIT launch_vmsa: its tqh_first
\* and its tqh_circ.tql_prev are both NULL.
\* The fields of the object after construction, the properties guest type
\* and kernel-hashes apart.
InitLaunchState ==
    /\ state = SEV_STATE_UNINIT
    /\ alive = TRUE
    /\ sev_fd = FALSE
    /\ measurement = 0
    /\ cmds = <<>>
    /\ launch_update = <<>>
    /\ sev_mig_blocker = FALSE
    /\ notifiers = [ram |-> FALSE, machine_done |-> FALSE, vm_change |-> FALSE]
    /\ init_called = FALSE
    /\ machine_done = FALSE
    /\ nwrites = 0
    /\ nsecrets = 0
    /\ last = Result("none", 0, "none")
    /\ launch_vmsa = <<>>
    /\ vmsa_tail_linked = FALSE

InitLaunch ==
    /\ guest \in GuestTypes
    \* kernel_hashes is read on the SNP finish path only
    /\ kernel_hashes \in (IF guest = "snp" THEN BOOLEAN ELSE {FALSE})
    /\ InitLaunchState

\* No segment has been converted yet.
NoSeg == [attrib |-> 0, flags |-> 0, back |-> 0, done |-> FALSE]

\* A value stored into a __u32, as its two 16-bit halves.
U32(h, l) == [hi16 |-> h, lo16 |-> l]

\* struct psc_entry: the fields the handler reads or writes.
psc_entry(gfn, operation, pagesize, cur_page) ==
    [cur_page |-> cur_page, gfn |-> gfn, operation |-> operation,
     pagesize |-> pagesize]

\* struct snp_psc_desc with a zeroed header and zeroed entries.
NoDesc ==
    [cur_entry |-> 0, end_entry |-> 0,
     entries |-> [i \in 0..(MaxPscEntry - 1) |-> psc_entry(0, 0, 0, 0)]]

\* No page-state-change VM exit has been handled yet.
NoPsc ==
    [type |-> "none", given |-> NoDesc, returned |-> FALSE, rc |-> 0,
     ret |-> ZeroLen, calls |-> <<>>, runs |-> <<>>, failed |-> FALSE,
     failed_call |-> 0,
     desc |-> NoDesc, short |-> "none", wrote_back |-> FALSE, maps |-> 0,
     unmaps |-> 0, oob_read |-> FALSE, oob_write |-> FALSE, hang |-> FALSE,
     raced |-> FALSE, fail_at |-> 0, junk |-> psc_entry(0, 0, 0, 0),
     msr |-> [gpa |-> 0, op |-> 0], status |-> 0,
     msr_ret |-> U32(0, 0)]

\* No extended guest request has been handled yet.
NoExtReq ==
    [handled |-> FALSE, rc |-> 0, vmm_ret |-> U32(0, 0), given_npages |-> 0,
     npages |-> 0, bundle |-> [path |-> FALSE, readable |-> FALSE, sz |-> 0],
     copied |-> 0, maps |-> 0, unmaps |-> 0]

\* Sizes of the packed structures SevHashTableEntry, SevHashTable and
\* PaddedSevHashTable.
HASH_SIZE == 32
SizeofQemuUUID == 16
SizeofUint16 == 2
SizeofSevHashTableEntry == SizeofQemuUUID + SizeofUint16 + HASH_SIZE
SizeofSevHashTable ==
    SizeofQemuUUID + SizeofUint16 + 3 * SizeofSevHashTableEntry
ROUND_UP(n, d) == ((n + d - 1) \div d) * d
SizeofPadding == ROUND_UP(SizeofSevHashTable, 16) - SizeofSevHashTable
SizeofPaddedSevHashTable == SizeofSevHashTable + SizeofPadding

\* padding[] with every byte zero.
ZeroPadding == [i \in 1..SizeofPadding |-> 0]

\* A SevHashTableEntry; the hash is kept as the list of the buffers hashed,
\* in order, with their lengths.
SevHashTableEntry(guid, len, hash) == [guid |-> guid, len |-> len, hash |-> hash]

\* Memory that holds no table: what the destination holds before the build.
NoTable ==
    [guid |-> "-", len |-> 0,
     cmdline |-> SevHashTableEntry("-", 0, <<>>),
     initrd |-> SevHashTableEntry("-", 0, <<>>),
     kernel |-> SevHashTableEntry("-", 0, <<>>)]

\* A PaddedSevHashTable.
PaddedSevHashTable(ht, padding) == [ht |-> ht, padding |-> padding]

\* sev_add_kernel_loader_hashes has not been called; the hashes area of the
\* guest's memory holds the padding bytes p, the staging pointer
\* kernel_hashes_data is NULL (data_set = FALSE).  page_rest is what the
\* page of the hashes area holds outside the table: what the guest's memory
\* held ("guest") or zero bytes ("zero").
NoHashes(p) ==
    [called |-> FALSE, rc |-> FALSE, err |-> "none", built |-> FALSE,
     area_before |-> PaddedSevHashTable(NoTable, p),
     area |-> PaddedSevHashTable(NoTable, p),
     data_set |-> FALSE,
     kernel_hashes_data |-> PaddedSevHashTable(NoTable, ZeroPadding),
     maps |-> 0, unmaps |-> 0, page_rest |-> "guest"]

InitRuntime ==
    /\ seg = NoSeg
    /\ shared_buf = NoDesc
    /\ psc = NoPsc
    /\ ext_req = NoExtReq
    /\ hashes = NoHashes(ZeroPadding)

Init ==
    /\ InitLaunch
    /\ cpu_env = [i \in CpuIndexes |-> 0]
    /\ InitRuntime

(***************************************************************************)
(* sev_kvm_init.  The environment record e fixes what the host answers at  *)
(* each step; InitFailure is the first check of the function that fails.   *)
(***************************************************************************)
InitEnvs ==
    [discard_ok : BOOLEAN, cbit_match : BOOLEAN,
     reduced_phys_bits : {0, 1, 63, 64},
     open_ok : BOOLEAN, status_ok : BOOLEAN, irqchip : BOOLEAN,
     es_flag : BOOLEAN, init_ok : BOOLEAN, files_ok : BOOLEAN,
     start_ok : BOOLEAN]

InitFailure(e) ==
    IF ~e.discard_ok THEN "discard"
    ELSE IF ~e.cbit_match THEN "cbitpos"
    ELSE IF e.reduced_phys_bits < 1 \/ e.reduced_phys_bits > 63
         THEN "reduced_phys_bits"
    ELSE IF ~e.open_ok THEN "open"
    ELSE IF ~e.status_ok THEN "status"
    ELSE IF sev_es_enabled /\ ~e.irqchip THEN "irqchip"
    ELSE IF guest = "es" /\ ~e.es_flag THEN "es_support"
    ELSE IF ~e.init_ok THEN "init"
    ELSE IF ~sev_snp_enabled /\ ~e.files_ok THEN "files"
    ELSE IF ~e.start_ok THEN "start"
    ELSE "none"

\* Failures that leave before open(devname) is reached or make it fail.
BeforeOpen == {"discard", "cbitpos", "reduced_phys_bits", "open"}

\* The failure paths of sev_kvm_init that call error_setg(errp, ...).
InitSetsErrp(f) ==
    \/ f \in {"cbitpos", "reduced_phys_bits", "open", "status", "init",
              "files", "start"}
    \/ f = "irqchip" /\ sev_snp_enabled

InitCmdName ==
    IF sev_snp_enabled THEN "SNP_INIT"
    ELSE IF sev_es_enabled THEN "SEV_ES_INIT" ELSE "SEV_INIT"

StartCmdName == IF sev_snp_enabled THEN "SNP_LAUNCH_START" ELSE "LAUNCH_START"

InitCmds(f) ==
    (IF f \in BeforeOpen THEN <<>>
     ELSE <<Cmd("PLATFORM_STATUS", f # "status")>>)
    \o (IF f \in {"init", "files", "start", "none"}
        THEN <<Cmd(InitCmdName, f # "init")>> ELSE <<>>)
    \o (IF f \in {"start", "none"}
        THEN <<Cmd(StartCmdName, f = "none")>> ELSE <<>>)

\* sev_launch_start / sev_snp_launch_start set the state only on success.
StartState(f) ==
    IF f = "none" THEN SEV_STATE_LAUNCH_UPDATE ELSE SEV_STATE_UNINIT

\* Variant: the machine-init-done notifier is registered for SNP guests too.
RegisteredNotifiers_machine_done_for_all(f) ==
    [ram |-> f = "none" /\ ~sev_snp_enabled,
     machine_done |-> f = "none",
     vm_change |-> f = "none"]

\* Variant: the two notifiers are registered without testing for SNP.
RegisteredNotifiers_no_snp_test(f) ==
    [ram |-> f = "none", machine_done |-> f = "none", vm_change |-> f = "none"]

\* The callbacks registered at the end of sev_kvm_init; the err: label is
\* reached before any of them.
RegisteredNotifiers(f) ==
    [ram |-> f = "none" /\ ~sev_snp_enabled,
     machine_done |-> f = "none" /\ ~sev_snp_enabled,
     vm_change |-> f = "none"]

sev_kvm_init(e) ==
    LET f == InitFailure(e) IN
    /\ alive /\ ~init_called
    /\ init_called' = TRUE
    /\ state' = StartState(f)
    /\ sev_fd' = (f \notin BeforeOpen)
    /\ cmds' = cmds \o InitCmds(f)
    /\ launch_update' = <<>>
    /\ notifiers' = RegisteredNotifiers(f)
    /\ last' = [Result("init", IF f = "none" THEN 0 ELSE -1,
                       IF InitSetsErrp(f) THEN "errp" ELSE "none")
                EXCEPT !.why = f]
    /\ UNCHANGED <<launch_vmsa, vmsa_tail_linked, cpu_env, runtime_vars,
                   guest, kernel_hashes, alive, measurement, sev_mig_blocker,
                   machine_done, nwrites, nsecrets>>

(***************************************************************************)
(* sev_launch_update_vmsa + sev_launch_get_measure (machine-init-done).    *)
(*   vmsa_ok : LAUNCH_UPDATE_VMSA succeeds                                 *)
(*   len     : measurement.len after the length query (0: none reported)   *)
(*   get_ok  : the second LAUNCH_MEASURE succeeds                          *)
(***************************************************************************)
\* Variant: the VMSA update is made for SNP guests only.
VmsaCmds_snp_only(vmsa_ok) ==
    IF sev_snp_enabled THEN <<Cmd("LAUNCH_UPDATE_VMSA", vmsa_ok)>> ELSE <<>>

VmsaCmds(vmsa_ok) ==
    IF sev_es_enabled THEN <<Cmd("LAUNCH_UPDATE_VMSA", vmsa_ok)>> ELSE <<>>

\* Variant: the handler tests only that the guest is not yet RUNNING.
MeasureAllowed_until_running == ~sev_check_state(SEV_STATE_RUNNING)

\* The state in which sev_launch_get_measure acts.
MeasureAllowed == sev_check_state(SEV_STATE_LAUNCH_UPDATE)

sev_launch_get_measure(vmsa_ok, len, get_ok) ==
    /\ last' = Result("machine_done", 0, "none")
    /\ IF ~MeasureAllowed
       THEN UNCHANGED <<state, alive, measurement, cmds>>
       ELSE IF sev_es_enabled /\ ~vmsa_ok
       THEN /\ cmds' = cmds \o VmsaCmds(vmsa_ok)
            /\ alive' = FALSE
            /\ UNCHANGED <<state, measurement>>
       ELSE IF len = 0
       THEN /\ cmds' = cmds \o VmsaCmds(vmsa_ok)
                            \o <<Cmd("LAUNCH_MEASURE", FALSE)>>
            /\ UNCHANGED <<state, alive, measurement>>
       ELSE IF ~get_ok
       THEN /\ cmds' = cmds \o VmsaCmds(vmsa_ok)
                            \o <<Cmd("LAUNCH_MEASURE", TRUE),
                                 Cmd("LAUNCH_MEASURE", FALSE)>>
            /\ UNCHANGED <<state, alive, measurement>>
       ELSE /\ cmds' = cmds \o VmsaCmds(vmsa_ok)
                            \o <<Cmd("LAUNCH_MEASURE", TRUE),
                                 Cmd("LAUNCH_MEASURE", TRUE)>>
            /\ state' = SEV_STATE_LAUNCH_SECRET
            /\ measurement' = len
            /\ UNCHANGED alive

\* The machine-init-done notifier list is run once, after a successful init;
\* sev_machine_done_notify is on it only if sev_kvm_init registered it.
MachineInitDone(vmsa_ok, len, get_ok) ==
    /\ alive /\ notifiers.vm_change /\ ~machine_done
    /\ machine_done' = TRUE
    /\ IF notifiers.machine_done
       THEN sev_launch_get_measure(vmsa_ok, len, get_ok)
       ELSE /\ last' = Result("machine_done", 0, "none")
            /\ UNCHANGED <<state, alive, measurement, cmds>>
    /\ UNCHANGED <<launch_vmsa, vmsa_tail_linked, cpu_env, runtime_vars,
                   guest, kernel_hashes, sev_fd, launch_update,
                   sev_mig_blocker, notifiers, init_called, nwrites, nsecrets>>

(***************************************************************************)
(* sev_get_launch_measurement / qmp_query_sev_launch_measure.              *)
(***************************************************************************)
\* The measurement string returned, 0 = NULL.  sev_guest is NULL unless the
\* object is a TYPE_SEV_GUEST (SEV or SEV-ES); g_strdup(NULL) is NULL.
sev_get_launch_measurement ==
    IF ~sev_snp_enabled /\ state >= SEV_STATE_LAUNCH_SECRET
    THEN measurement ELSE 0

\* Variant: the test of data is inverted.
QueryMeasureResult_inverted(data) ==
    IF data # 0 THEN Result("query_measure", 0, "not_available")
    ELSE Result("query_measure", data, "none")

\* qmp_query_sev_launch_measure: the info returned (rc: its data, 0 = none)
\* or the error "SEV launch measurement is not available".
QueryMeasureResult(data) ==
    IF data = 0 THEN Result("query_measure", 0, "not_available")
    ELSE Result("query_measure", data, "none")

qmp_query_sev_launch_measure ==
    /\ alive
    /\ last' = QueryMeasureResult(sev_get_launch_measurement)
    /\ UNCHANGED <<launch_vmsa, vmsa_tail_linked, cpu_env, runtime_vars,
                   guest, kernel_hashes, state, alive, sev_fd, measurement,
                   cmds, launch_update, sev_mig_blocker, notifiers,
                   init_called, machine_done, nwrites, nsecrets>>

(***************************************************************************)
(* sev_encrypt_flash and the two update paths it dispatches to.            *)
(***************************************************************************)
\* sev_launch_update_data: 1 for a NULL pointer or a zero length (nothing is
\* sent), else the result of the LAUNCH_UPDATE_DATA ioctl (negative on error).
sev_launch_update_data_ret(addr, len, ioctl_ok) ==
    IF addr = 0 \/ ~NonZero(len) THEN 1
    ELSE IF ioctl_ok THEN 0 ELSE -1

\* Variant: update.len is filled from a 32-bit copy of len.
sev_launch_update_data_cmds_len32(addr, len, ioctl_ok) ==
    IF addr = 0 \/ ~NonZero(len) THEN <<>>
    ELSE <<DataCmd("LAUNCH_UPDATE_DATA", ioctl_ok, 0, addr, Trunc32(len),
                   "-")>>

sev_launch_update_data_cmds(addr, len, ioctl_ok) ==
    IF addr = 0 \/ ~NonZero(len) THEN <<>>
    ELSE <<DataCmd("LAUNCH_UPDATE_DATA", ioctl_ok, 0, addr, len, "-")>>

\* snp_launch_update_data(uint64_t gpa, void *hva, uint32_t len, int type):
\* the new tail entry; always returns 0.
SevLaunchUpdateData(gpa, hva, len, type) ==
    [gpa |-> gpa, hva |-> hva, len |-> Trunc32(len), type |-> type]

\* Variant: QTAILQ_INSERT_HEAD instead of QTAILQ_INSERT_TAIL.
snp_launch_update_data_head(queue, gpa, hva, len, type) ==
    <<SevLaunchUpdateData(gpa, hva, len, type)>> \o queue

snp_launch_update_data(queue, gpa, hva, len, type) ==
    Append(queue, SevLaunchUpdateData(gpa, hva, len, type))

\* Variant: sev_encrypt_flash acts in every state before RUNNING.
EncryptFlashActs_pre_run == state # SEV_STATE_RUNNING

\* The state in which sev_encrypt_flash acts.
EncryptFlashActs == sev_check_state(SEV_STATE_LAUNCH_UPDATE)

sev_encrypt_flash(gpa, ptr, len, ioctl_ok) ==
    /\ alive /\ nwrites + nsecrets < MaxOps
    /\ nwrites' = IF EncryptFlashActs THEN nwrites + 1 ELSE nwrites
    /\ IF EncryptFlashActs
       THEN IF sev_snp_enabled
            THEN /\ launch_update' =
                        snp_launch_update_data(launch_update, gpa, ptr, len,
                                               "NORMAL")
                 /\ cmds' = cmds
                 /\ last' = ResultOf("encrypt_flash", 0, "none",
                                     <<gpa, ptr, len>>)
            ELSE LET ret == sev_launch_update_data_ret(ptr, len, ioctl_ok) IN
                 /\ cmds' = cmds \o
                        sev_launch_update_data_cmds(ptr, len, ioctl_ok)
                 /\ launch_update' = launch_update
                 /\ last' = IF ret < 0
                            THEN ResultOf("encrypt_flash", ret, "errp",
                                          <<gpa, ptr, len>>)
                            ELSE ResultOf("encrypt_flash", 0, "none",
                                          <<gpa, ptr, len>>)
       ELSE /\ last' = ResultOf("encrypt_flash", 0, "none",
                                <<gpa, ptr, len>>)
            /\ UNCHANGED <<cmds, launch_update>>
    /\ UNCHANGED <<launch_vmsa, vmsa_tail_linked, cpu_env, runtime_vars,
                   guest, kernel_hashes, state, alive, sev_fd, measurement,
                   sev_mig_blocker, notifiers, init_called, machine_done,
                   nsecrets>>

(***************************************************************************)
(* sev_inject_launch_secret.  fail names the first step that fails:        *)
(* "hdr" / "data" (base64 decode), "hva" (gpa2hva), "ioctl", or "none".    *)
(***************************************************************************)
SecretFailures == {"hdr", "data", "hva", "ioctl", "none"}

\* Variant: the window is tested with >= instead of ==.
SecretAllowed_from_secret_on == state >= SEV_STATE_LAUNCH_SECRET

\* secret can be injected only in this state
SecretAllowed == sev_check_state(SEV_STATE_LAUNCH_SECRET)

\* Variant: a failed LAUNCH_SECRET ioctl ends the process, as the failures of
\* the other launch commands do.
sev_inject_launch_secret_fatal(fail) ==
    /\ alive /\ nwrites + nsecrets < MaxOps
    /\ nsecrets' = IF SecretAllowed THEN nsecrets + 1 ELSE nsecrets
    /\ IF ~SecretAllowed
       THEN /\ last' = Result("inject_secret", 1, "state")
            /\ cmds' = cmds
            /\ alive' = alive
       ELSE IF fail \in {"hdr", "data", "hva"}
       THEN /\ last' = Result("inject_secret", 1, fail)
            /\ cmds' = cmds
            /\ alive' = alive
       ELSE /\ cmds' = Append(cmds, Cmd("LAUNCH_SECRET", fail = "none"))
            /\ alive' = (fail = "none")
            /\ last' = IF fail = "none"
                       THEN Result("inject_secret", 0, "none")
                       ELSE Result("inject_secret", -1, "ioctl")
    /\ UNCHANGED <<launch_vmsa, vmsa_tail_linked, cpu_env, runtime_vars,
                   guest, kernel_hashes, state, sev_fd, measurement,
                   launch_update, sev_mig_blocker, notifiers, init_called,
                   machine_done, nwrites>>

sev_inject_launch_secret(fail) ==
    /\ alive /\ nwrites + nsecrets < MaxOps
    /\ nsecrets' = IF SecretAllowed THEN nsecrets + 1 ELSE nsecrets
    /\ IF ~SecretAllowed
       THEN /\ last' = Result("inject_secret", 1, "state")
            /\ cmds' = cmds
       ELSE IF fail \in {"hdr", "data", "hva"}
       THEN /\ last' = Result("inject_secret", 1, fail)
            /\ cmds' = cmds
       ELSE /\ cmds' = Append(cmds, Cmd("LAUNCH_SECRET", fail = "none"))
            /\ last' = IF fail = "none"
                       THEN Result("inject_secret", 0, "none")
                       ELSE Result("inject_secret", -1, "ioctl")
    /\ UNCHANGED <<launch_vmsa, vmsa_tail_linked, cpu_env, runtime_vars,
                   guest, kernel_hashes, state, alive, sev_fd, measurement,
                   launch_update, sev_mig_blocker, notifiers, init_called,
                   machine_done, nwrites>>

(***************************************************************************)
(* sev_launch_finish (SEV, SEV-ES).                                        *)
(***************************************************************************)
\* Variant: the finish stores LAUNCH_UPDATE instead of RUNNING.
sev_launch_finish_wrong_state(finish_ok, blocker_ok) ==
    /\ cmds' = Append(cmds, Cmd("LAUNCH_FINISH", finish_ok))
    /\ IF ~finish_ok
       THEN /\ alive' = FALSE
            /\ UNCHANGED <<state, sev_mig_blocker>>
       ELSE /\ state' = SEV_STATE_LAUNCH_UPDATE
            /\ sev_mig_blocker' = blocker_ok
            /\ alive' = blocker_ok
    /\ UNCHANGED launch_update

\* Variant: the result of migrate_add_blocker is ignored.
sev_launch_finish_blocker_unchecked(finish_ok, blocker_ok) ==
    /\ cmds' = Append(cmds, Cmd("LAUNCH_FINISH", finish_ok))
    /\ IF ~finish_ok
       THEN /\ alive' = FALSE
            /\ UNCHANGED <<state, sev_mig_blocker>>
       ELSE /\ state' = SEV_STATE_RUNNING
            /\ sev_mig_blocker' = blocker_ok
            /\ alive' = TRUE
    /\ UNCHANGED launch_update

sev_launch_finish(finish_ok, blocker_ok) ==
    /\ cmds' = Append(cmds, Cmd("LAUNCH_FINISH", finish_ok))
    /\ IF ~finish_ok
       THEN /\ alive' = FALSE
            /\ UNCHANGED <<state, sev_mig_blocker>>
       ELSE /\ state' = SEV_STATE_RUNNING
            \* migrate_add_blocker(&sev_mig_blocker, &error_fatal)
            /\ sev_mig_blocker' = blocker_ok
            /\ alive' = blocker_ok
    /\ UNCHANGED launch_update

(***************************************************************************)
(* SNP finish: snp_populate_metadata_pages, the drain of launch_update     *)
(* through sev_snp_launch_update, SNP_LAUNCH_FINISH, the blocker.          *)
(***************************************************************************)
\* The firmware's metadata tables considered (pc_system_get_ovmf_sev_metadata_ptr).
MetadataTables ==
    { <<>>,
      <<"SEC_MEM", "SECRETS", "CPUID">>,
      <<"SEC_MEM", "KERNEL_HASHES">>,
      <<"CPUID", "UNKNOWN">> }

MaxDesc ==
    CHOOSE n \in 0..4 : /\ \A d \in MetadataTables : Len(d) <= n
                        /\ \E d \in MetadataTables : Len(d) = n

\* desc->base of the i-th descriptor: above the addresses of guest writes.
DescBase(i) == 2 + i

snp_metadata_desc_to_page_type(desc_type) ==
    CASE desc_type = "SEC_MEM" -> "ZERO"
      [] desc_type = "SECRETS" -> "SECRETS"
      [] desc_type = "CPUID" -> "CPUID"
      [] desc_type = "KERNEL_HASHES" -> "NORMAL"
      [] OTHER -> "INVALID"

\* snp_launch_update_kernel_hashes: the type the kernel-hashes page is queued as.
snp_launch_update_kernel_hashes_type ==
    IF kernel_hashes THEN "NORMAL" ELSE "ZERO"

\* snp_launch_update_kernel_hashes: assert(sev_snp->kernel_hashes_data) fails
\* and ends the process.
kernel_hashes_assert_fails == kernel_hashes /\ ~hashes.data_set

\* Variant: the page is not cleared before the table is copied into it.
snp_launch_update_kernel_hashes_page_no_memset(h) ==
    IF kernel_hashes THEN [h EXCEPT !.area = h.kernel_hashes_data] ELSE h

\* snp_launch_update_kernel_hashes: what the page holds afterwards; with
\* kernel_hashes it is cleared and the staged table is copied to its offset.
snp_launch_update_kernel_hashes_page(h) ==
    IF kernel_hashes
    THEN [h EXCEPT !.area = h.kernel_hashes_data, !.page_rest = "zero"]
    ELSE h

\* The entry snp_populate_metadata_pages queues for descriptor i of type t.
MetadataEntry(t, i) ==
    SevLaunchUpdateData(DescBase(i), HvaOf(DescBase(i)), PageLen,
        IF t = "KERNEL_HASHES" THEN snp_launch_update_kernel_hashes_type
        ELSE snp_metadata_desc_to_page_type(t))

\* Index of the descriptor at which snp_populate_metadata_pages exits: the
\* first one of invalid type, or the one (env_fail) whose gpa2hva or CPUID
\* query fails, or the kernel-hashes one when the assertion on the staged
\* table fails; 0 if the loop completes.
PopulateStop(descs, env_fail) ==
    LET bad == {i \in 1..Len(descs) :
                   \/ snp_metadata_desc_to_page_type(descs[i]) = "INVALID"
                   \/ i = env_fail
                   \/ descs[i] = "KERNEL_HASHES" /\ kernel_hashes_assert_fails}
    IN IF bad = {} THEN 0 ELSE CHOOSE i \in bad : \A j \in bad : i <= j

snp_populate_metadata_pages(queue, descs, stop) ==
    LET n == IF stop = 0 THEN Len(descs) ELSE stop - 1
    IN queue \o [i \in 1..n |-> MetadataEntry(descs[i], i)]

\* The guest memory of the hashes area after snp_populate_metadata_pages.
snp_populate_metadata_hashes(h, descs, stop) ==
    LET n == IF stop = 0 THEN Len(descs) ELSE stop - 1
    IN IF \E i \in 1..n : descs[i] = "KERNEL_HASHES"
       THEN snp_launch_update_kernel_hashes_page(h)
       ELSE h

\* sev_snp_launch_update(data): what one entry does, given how the platform
\* answers ("ok", "ioctl" fails, "convert" fails).
sev_snp_launch_update_invalid(data) == data.hva = 0 \/ ~NonZero(data.len)

UpdateCmd(data, ok) ==
    DataCmd("SNP_LAUNCH_UPDATE", ok, data.gpa, data.hva, data.len, data.type)
ConvertCmd(data, ok) ==
    DataCmd("CONVERT_PRIVATE", ok, data.gpa, 0, data.len, "-")

sev_snp_launch_update(data, answer) ==
    IF sev_snp_launch_update_invalid(data) THEN <<>>
    ELSE IF answer = "ioctl" THEN <<UpdateCmd(data, FALSE)>>
    ELSE IF answer = "convert"
         THEN <<UpdateCmd(data, TRUE), ConvertCmd(data, FALSE)>>
    ELSE <<UpdateCmd(data, TRUE), ConvertCmd(data, TRUE)>>

\* Variant: the result of kvm_convert_memory is not returned.
sev_snp_launch_update_ret_no_convert(data, answer) ==
    IF sev_snp_launch_update_invalid(data) THEN 1
    ELSE IF answer = "ioctl" THEN -1 ELSE 0

sev_snp_launch_update_ret(data, answer) ==
    IF sev_snp_launch_update_invalid(data) THEN 1
    ELSE IF answer = "ok" THEN 0 ELSE -1

\* The host's answer to entry i of the drain: it fails at entry env_fail.
Answer(i, env_fail, kind) == IF i = env_fail THEN kind ELSE "ok"

\* QTAILQ_FOREACH(data, &launch_update, next) from entry i on: the commands
\* issued, the loop leaving at the first entry whose sev_snp_launch_update
\* returns non-zero.
RECURSIVE DrainCmds(_, _, _, _)
DrainCmds(queue, i, env_fail, kind) ==
    IF i > Len(queue) THEN <<>>
    ELSE sev_snp_launch_update(queue[i], Answer(i, env_fail, kind))
         \o (IF sev_snp_launch_update_ret(
                    queue[i], Answer(i, env_fail, kind)) # 0
             THEN <<>>
             ELSE DrainCmds(queue, i + 1, env_fail, kind))

\* TRUE iff that loop reaches exit(1).
RECURSIVE DrainFails(_, _, _, _)
DrainFails(queue, i, env_fail, kind) ==
    IF i > Len(queue) THEN FALSE
    ELSE IF sev_snp_launch_update_ret(
                queue[i], Answer(i, env_fail, kind)) # 0
         THEN TRUE
         ELSE DrainFails(queue, i + 1, env_fail, kind)

\* The environment of one finish: metadata present or NULL, its descriptors,
\* and where (if anywhere) the host fails.
FinishEnv(present, descs, pop_fail, drain_fail, kind, finish_ok, blocker_ok) ==
    [present |-> present, descs |-> descs, pop_fail |-> pop_fail,
     drain_fail |-> drain_fail, kind |-> kind, finish_ok |-> finish_ok,
     blocker_ok |-> blocker_ok]

\* Host answers to LAUNCH_FINISH / SNP_LAUNCH_FINISH and migrate_add_blocker,
\* with everything before them succeeding.
TailEnvs(descs) ==
    {FinishEnv(TRUE, descs, 0, 0, "ok", TRUE, TRUE),
     FinishEnv(TRUE, descs, 0, 0, "ok", TRUE, FALSE),
     FinishEnv(TRUE, descs, 0, 0, "ok", FALSE, TRUE)}

SnpFinishEnvs ==
    {FinishEnv(FALSE, <<>>, 0, 0, "ok", TRUE, TRUE)}
    \cup UNION {TailEnvs(d) : d \in MetadataTables}
    \cup {FinishEnv(TRUE, d, i, 0, "ok", TRUE, TRUE) :
              d \in MetadataTables, i \in 1..MaxDesc}
    \cup {FinishEnv(TRUE, d, 0, i, k, TRUE, TRUE) :
              d \in MetadataTables, i \in 1..(MaxOps + MaxDesc),
              k \in {"ioctl", "convert"}}

sev_snp_launch_finish(e) ==
    IF ~e.present
    THEN /\ alive' = FALSE
         /\ UNCHANGED <<state, cmds, launch_update, sev_mig_blocker, hashes>>
    ELSE
    LET pstop == PopulateStop(e.descs, e.pop_fail)
        queue == snp_populate_metadata_pages(launch_update, e.descs, pstop)
        dfail == DrainFails(queue, 1, e.drain_fail, e.kind)
        sent  == DrainCmds(queue, 1, e.drain_fail, e.kind)
    IN
    /\ launch_update' = queue
    /\ hashes' = snp_populate_metadata_hashes(hashes, e.descs, pstop)
    /\ IF pstop # 0
       THEN /\ alive' = FALSE
            /\ UNCHANGED <<state, cmds, sev_mig_blocker>>
       ELSE IF dfail
       THEN /\ cmds' = cmds \o sent
            /\ alive' = FALSE
            /\ UNCHANGED <<state, sev_mig_blocker>>
       ELSE IF ~e.finish_ok
       THEN /\ cmds' = cmds \o sent \o <<Cmd("SNP_LAUNCH_FINISH", FALSE)>>
            /\ alive' = FALSE
            /\ UNCHANGED <<state, sev_mig_blocker>>
       ELSE /\ cmds' = cmds \o sent \o <<Cmd("SNP_LAUNCH_FINISH", TRUE)>>
            /\ state' = SEV_STATE_RUNNING
            /\ sev_mig_blocker' = e.blocker_ok
            /\ alive' = e.blocker_ok

(***************************************************************************)
(* sev_vm_state_change: the run-state handler.                             *)
(***************************************************************************)
\* Variant: the run handler does not test the state.
FinishNeeded_always == TRUE

\* Event ordering of the control thread: run-state changes are delivered only
\* after the machine-init-done notification.
RunStateEventsEnabled == machine_done

\* The condition under which a run event performs the finish transition.
FinishNeeded == ~sev_check_state(SEV_STATE_RUNNING)

sev_vm_state_change(running, e) ==
    /\ alive /\ notifiers.vm_change
    /\ RunStateEventsEnabled
    /\ last' = Result(IF running THEN "run" ELSE "stop", 0, "none")
    /\ IF running /\ FinishNeeded
       THEN IF sev_snp_enabled
            THEN sev_snp_launch_finish(e)
            ELSE /\ sev_launch_finish(e.finish_ok, e.blocker_ok)
                 /\ UNCHANGED hashes
       ELSE UNCHANGED <<state, alive, cmds, launch_update, sev_mig_blocker,
                        hashes>>
    /\ UNCHANGED <<launch_vmsa, vmsa_tail_linked, cpu_env, seg, shared_buf,
                   psc, ext_req,
                   guest, kernel_hashes, sev_fd, measurement, notifiers,
                   init_called, machine_done, nwrites, nsecrets>>

\* The host environments that matter to a run-state change in this state.
FinishEnvs ==
    IF ~FinishNeeded THEN {FinishEnv(TRUE, <<>>, 0, 0, "ok", TRUE, TRUE)}
    ELSE IF sev_snp_enabled THEN SnpFinishEnvs
    ELSE TailEnvs(<<>>)

Next ==
    \/ \E e \in InitEnvs : sev_kvm_init(e)
    \/ \E vmsa_ok \in BOOLEAN, len \in 0..MaxMeasureLen, get_ok \in BOOLEAN :
           MachineInitDone(vmsa_ok, len, get_ok)
    \/ \E w \in WriteInputs, ok \in BOOLEAN :
           sev_encrypt_flash(w[1], w[2], w[3], ok)
    \/ \E fail \in SecretFailures : sev_inject_launch_secret(fail)
    \/ qmp_query_sev_launch_measure
    \/ \E e \in FinishEnvs : sev_vm_state_change(TRUE, e)
    \/ sev_vm_state_change(FALSE, FinishEnv(TRUE, <<>>, 0, 0, "ok", TRUE, TRUE))

Spec == Init /\ [][Next]_vars

(***************************************************************************)
(* The same machine with sev_launch_get_measure invoked as a callback at   *)
(* any time after it was registered, any number of times: the handler does *)
(* not rely on the notifier list being run once.                           *)
(***************************************************************************)
sev_machine_done_notify_again(vmsa_ok, len, get_ok) ==
    /\ alive /\ notifiers.machine_done /\ machine_done
    /\ state = SEV_STATE_LAUNCH_UPDATE => Len(cmds) < MaxCmds
    /\ sev_launch_get_measure(vmsa_ok, len, get_ok)
    /\ UNCHANGED <<launch_vmsa, vmsa_tail_linked, cpu_env, runtime_vars,
                   guest, kernel_hashes, sev_fd, launch_update,
                   sev_mig_blocker, notifiers, init_called, machine_done,
                   nwrites, nsecrets>>

NextReentrant ==
    \/ Next
    \/ \E vmsa_ok \in BOOLEAN, len \in 0..MaxMeasureLen, get_ok \in BOOLEAN :
           sev_machine_done_notify_again(vmsa_ok, len, get_ok)

SpecReentrant == Init /\ [][NextReentrant]_vars

(***************************************************************************)
(* The VMSA store: sev_set_cpu_context and sev_apply_cpu_context.          *)
(***************************************************************************)
SevLaunchVmsa(cpu_index, ctx) == [cpu_index |-> cpu_index, vmsa |-> ctx]

\* Position of the first entry of the store for cpu_index, 0 if there is none
\* (QTAILQ_FOREACH from tqh_first, leaving at the first match).
VmsaLookup(cpu_index) ==
    LET hits == {i \in DOMAIN launch_vmsa :
                    launch_vmsa[i].cpu_index = cpu_index}
    IN IF hits = {} THEN 0 ELSE CHOOSE i \in hits : \A j \in hits : i <= j

\* What the CPU state (as far as it comes from the save area) was before any
\* apply, and the save-area contents a caller may pass.
CpuStates == 0..MaxCtx
Contexts == 1..MaxCtx

\* sev_set_cpu_context(cpu_index, ctx, ctx_len).
\*   len_ok : ctx_len >= sizeof(struct sev_es_save_area)
\*   fault  : the store through a NULL tql_prev ends the process
\* QTAILQ_INSERT_TAIL writes the new element through tqh_circ.tql_prev.  While
\* that pointer is NULL the write goes to address 0: the process faults, or
\* (page 0 mapped) goes on with tql_prev pointing to the element and tqh_first
\* still NULL, so the element is not reached by any later QTAILQ_FOREACH.
sev_set_cpu_context(cpu_index, ctx, len_ok, fault) ==
    LET arg == <<cpu_index, ctx, ZeroLen>>
        hit == VmsaLookup(cpu_index)
    IN
    /\ alive
    /\ IF ~sev_es_enabled \/ ~len_ok
       THEN /\ last' = ResultOf("set_cpu_context", 1, "rejected", arg)
            /\ UNCHANGED <<launch_vmsa, vmsa_tail_linked, alive>>
       ELSE IF hit # 0
       THEN /\ launch_vmsa' = [launch_vmsa EXCEPT ![hit].vmsa = ctx]
            /\ last' = ResultOf("set_cpu_context", 0, "none", arg)
            /\ UNCHANGED <<vmsa_tail_linked, alive>>
       ELSE IF ~vmsa_tail_linked /\ fault
       THEN /\ alive' = FALSE
            /\ last' = ResultOf("set_cpu_context", -1, "fault", arg)
            /\ UNCHANGED <<launch_vmsa, vmsa_tail_linked>>
       ELSE /\ launch_vmsa' =
                   IF launch_vmsa # <<>>
                   THEN Append(launch_vmsa, SevLaunchVmsa(cpu_index, ctx))
                   ELSE launch_vmsa
            /\ vmsa_tail_linked' = TRUE
            /\ last' = ResultOf("set_cpu_context", 0, "none", arg)
            /\ UNCHANGED alive
    /\ UNCHANGED <<guest, kernel_hashes, state, sev_fd, measurement, cmds,
                   launch_update, sev_mig_blocker, notifiers, init_called,
                   machine_done, nwrites, nsecrets, cpu_env, runtime_vars>>

\* Variant: a CPU without a stored save area is put back to the zero state.
sev_apply_cpu_context_clears(cpu) ==
    LET hit == VmsaLookup(cpu) IN
    /\ alive
    /\ cpu_env' = [cpu_env EXCEPT
                      ![cpu] = IF hit # 0 THEN launch_vmsa[hit].vmsa ELSE 0]
    /\ last' = ResultOf("apply_cpu_context", 0, "none", <<cpu, 0, ZeroLen>>)
    /\ UNCHANGED <<guest, kernel_hashes, state, alive, sev_fd, measurement,
                   cmds, launch_update, sev_mig_blocker, notifiers,
                   init_called, machine_done, nwrites, nsecrets, launch_vmsa,
                   vmsa_tail_linked, runtime_vars>>

\* sev_apply_cpu_context(cpu): copy the stored save area of cpu->cpu_index, if
\* there is one, into the CPU state.
sev_apply_cpu_context(cpu) ==
    LET hit == VmsaLookup(cpu) IN
    /\ alive
    /\ cpu_env' = IF hit # 0
                  THEN [cpu_env EXCEPT ![cpu] = launch_vmsa[hit].vmsa]
                  ELSE cpu_env
    /\ last' = ResultOf("apply_cpu_context", 0, "none", <<cpu, 0, ZeroLen>>)
    /\ UNCHANGED <<guest, kernel_hashes, state, alive, sev_fd, measurement,
                   cmds, launch_update, sev_mig_blocker, notifiers,
                   init_called, machine_done, nwrites, nsecrets, launch_vmsa,
                   vmsa_tail_linked, runtime_vars>>

InitVmsa ==
    /\ InitLaunch
    /\ cpu_env \in [CpuIndexes -> CpuStates]
    /\ InitRuntime

NextVmsa ==
    \/ \E cpu_index \in CpuIndexes, ctx \in Contexts,
          len_ok \in BOOLEAN, fault \in BOOLEAN :
           sev_set_cpu_context(cpu_index, ctx, len_ok, fault)
    \/ \E cpu \in CpuIndexes : sev_apply_cpu_context(cpu)

SpecVmsa == InitVmsa /\ [][NextVmsa]_vars

(***************************************************************************)
(* Segment attributes: FLAGS_VMSA_TO_SEGCACHE (apply) and                  *)
(* FLAGS_SEGCACHE_TO_VMSA (capture, seg_to_vmsa).                          *)
(***************************************************************************)
\* Bits lo .. lo + width - 1 of x, as a number.
BitField(x, lo, width) == (x \div (2 ^ lo)) % (2 ^ width)

\* (((flags) & 0xff00) << 12) | (((flags) & 0xff) << 8)
FLAGS_VMSA_TO_SEGCACHE(flags) ==
    BitField(flags, 8, 8) * (2 ^ 20) + BitField(flags, 0, 8) * (2 ^ 8)

\* Variant: the upper part is taken with the mask 0xf000000.
FLAGS_SEGCACHE_TO_VMSA_high_nibble(flags) ==
    BitField(flags, 8, 8) + BitField(flags, 24, 4) * (2 ^ 8)

\* (((flags) & 0xff00) >> 8) | (((flags) & 0xf00000) >> 12)
FLAGS_SEGCACHE_TO_VMSA(flags) ==
    BitField(flags, 8, 8) + BitField(flags, 20, 4) * (2 ^ 8)

\* The values of vmcb_seg.attrib (uint16_t).
Attribs == 0..65535

\* A stored attribute is expanded into SegmentCache flags
\* (sev_apply_cpu_context) and those flags are packed again (seg_to_vmsa).
SegApplyThenCapture ==
    /\ alive /\ ~seg.done
    /\ seg' = [attrib |-> seg.attrib,
               flags |-> FLAGS_VMSA_TO_SEGCACHE(seg.attrib),
               back |-> FLAGS_SEGCACHE_TO_VMSA(
                            FLAGS_VMSA_TO_SEGCACHE(seg.attrib)),
               done |-> TRUE]
    /\ UNCHANGED <<launch_vars, shared_buf, psc, ext_req, hashes>>

InitSeg ==
    /\ InitLaunch
    /\ guest = "es" /\ ~kernel_hashes
    /\ cpu_env = [i \in CpuIndexes |-> 0]
    /\ seg \in [attrib : Attribs, flags : {0}, back : {0}, done : {FALSE}]
    /\ shared_buf = NoDesc
    /\ psc = NoPsc
    /\ ext_req = NoExtReq
    /\ hashes = NoHashes(ZeroPadding)

NextSeg == SegApplyThenCapture

SpecSeg == InitSeg /\ [][NextSeg]_vars

(***************************************************************************)
(* Page-state changes requested by the guest: kvm_handle_vmgexit with the  *)
(* types KVM_USER_VMGEXIT_PSC (a batch in the GHCB shared buffer) and      *)
(* KVM_USER_VMGEXIT_PSC_MSR (one page).                                    *)
(***************************************************************************)
GHCB_MSR_PSC_OP_PRIVATE == 1
GHCB_MSR_PSC_OP_SHARED == 2
KVM_USER_VMGEXIT_PSC_MSR_OP_PRIVATE == 1
TARGET_PAGE_SIZE == 4096

\* 0x100UL << 32
PSC_ERROR_GENERIC == U64(256, 0)

\* uint16_t arithmetic on the header fields.
HdrMod == MaxHdr + 1

\* Entries a guest puts into a descriptor: frames 10 and 11 to private, frame
\* 11 to shared with a progress counter left over from an earlier request,
\* frame 20 to shared, a large page at frame 10 and the frame that follows
\* it, and frame 30 with an operation code that is neither of the two.
PscEntryChoices ==
    {psc_entry(10, GHCB_MSR_PSC_OP_PRIVATE, 0, 0),
     psc_entry(11, GHCB_MSR_PSC_OP_PRIVATE, 0, 0),
     psc_entry(11, GHCB_MSR_PSC_OP_SHARED, 0, 3),
     psc_entry(20, GHCB_MSR_PSC_OP_SHARED, 0, 0),
     psc_entry(10, GHCB_MSR_PSC_OP_PRIVATE, 1, 0),
     psc_entry(522, GHCB_MSR_PSC_OP_PRIVATE, 0, 0),
     psc_entry(30, 3, 0, 0)}

\* The descriptors a guest can leave in the shared buffer: the header fields
\* are not validated, so they take every value.
PscDescs ==
    [cur_entry : 0..MaxHdr, end_entry : 0..MaxHdr,
     entries : [0..(MaxPscEntry - 1) -> PscEntryChoices]]

\* What a read of desc->entries[i] yields for i beyond the array, i.e. beyond
\* the local copy shared_buf[GHCB_SHARED_BUF_SIZE]: whatever the stack holds.
JunkEntries ==
    {psc_entry(0, 0, 0, 0), psc_entry(12, GHCB_MSR_PSC_OP_PRIVATE, 0, 7)}

\* entry->pagesize ? 512 : 1
PageCount(entry) == IF entry.pagesize # 0 THEN 512 ELSE 1

\* Variant: the direction of the entry is not compared.
RunContinues_ignoring_direction(entry, gfn_base, gfn_count, range_to_private) ==
    entry.gfn = gfn_base + gfn_count

\* The entry belongs to the run being built (the negation of the test that
\* reports the previous range).
RunContinues(entry, gfn_base, gfn_count, range_to_private) ==
    /\ entry.gfn = gfn_base + gfn_count
    /\ (entry.operation = 1) = range_to_private

\* Variant: the progress counter is left as the guest supplied it.
MarkProgress_untouched(entry) == entry

\* entry->cur_page = page_count
MarkProgress(entry) == [entry EXCEPT !.cur_page = PageCount(entry)]

\* The for loop of next_contig_gpa_range from index i on.
RECURSIVE next_contig_scan(_, _, _)
next_contig_scan(r, junk, i) ==
    IF i > r.desc.end_entry
    THEN r
    ELSE LET inside == i < MaxPscEntry
             entry == IF inside THEN r.desc.entries[i] ELSE junk
             first == r.gfn_count = 0
             gfn_base == IF first THEN entry.gfn ELSE r.gfn_base
             range_to_private ==
                 IF first THEN entry.operation = 1 ELSE r.range_to_private
             looked == [r EXCEPT !.gfn_base = gfn_base,
                                 !.range_to_private = range_to_private,
                                 !.oob_read = @ \/ ~inside]
         IN  IF ~RunContinues(entry, gfn_base, r.gfn_count, range_to_private)
             THEN [looked EXCEPT !.stopped = TRUE]
             ELSE next_contig_scan(
                      [looked EXCEPT
                          !.gfn_count = @ + PageCount(entry),
                          !.desc = IF inside
                                   THEN [@ EXCEPT !.entries[i] =
                                                      MarkProgress(entry)]
                                   ELSE @,
                          !.oob_write = @ \/ ~inside,
                          !.entries_processed = (@ + 1) % HdrMod],
                      junk, i + 1)

\* next_contig_gpa_range: ret is 0 or -ENOENT (-2).
next_contig_gpa_range(desc, junk) ==
    LET r == next_contig_scan(
                 [desc |-> desc, entries_processed |-> 0, gfn_base |-> 0,
                  gfn_count |-> 0, range_to_private |-> FALSE,
                  stopped |-> FALSE, oob_read |-> FALSE, oob_write |-> FALSE,
                  ret |-> 0],
                 junk, desc.cur_entry)
    IN  [r EXCEPT !.ret = IF r.stopped \/ r.gfn_count # 0 THEN 0 ELSE -2]

\* Variant: the cursor is advanced whatever kvm_convert_memory returned.
psc_after_convert_advancing(s, r, ret) ==
    [s EXCEPT !.desc = [r.desc EXCEPT !.cur_entry =
                                          (@ + r.entries_processed) % HdrMod],
              !.ret = IF ret # 0 THEN PSC_ERROR_GENERIC ELSE @,
              !.failed = ret # 0]

\* The body of the while loop once kvm_convert_memory has returned ret.
psc_after_convert(s, r, ret) ==
    IF ret # 0
    THEN [s EXCEPT !.desc = r.desc, !.ret = PSC_ERROR_GENERIC,
                   !.failed = TRUE]
    ELSE [s EXCEPT !.desc = [r.desc EXCEPT !.cur_entry =
                                   (@ + r.entries_processed) % HdrMod]]

\* The while loop of kvm_handle_vmgexit_psc.  The fail_at-th call of
\* kvm_convert_memory fails (0: none does).  seen holds the descriptors the
\* loop has started an iteration with: when none of the calls fails and one
\* comes again, the loop never ends (hang).
RECURSIVE psc_loop(_, _, _, _)
psc_loop(s, junk, fail_at, seen) ==
    LET r == next_contig_gpa_range(s.desc, junk)
    IN  IF r.ret # 0
        THEN [s EXCEPT !.oob_read = @ \/ r.oob_read]
        ELSE IF fail_at = 0 /\ s.desc \in seen
        THEN [s EXCEPT !.hang = TRUE]
        ELSE LET call == [start |-> r.gfn_base * 4096,
                          size |-> r.gfn_count * 4096,
                          to_private |-> r.range_to_private]
                 run == [first |-> s.desc.cur_entry,
                         n |-> r.entries_processed]
                 ret == IF Len(s.calls) + 1 = fail_at THEN -1 ELSE 0
                 t == psc_after_convert(
                          [s EXCEPT !.calls = Append(@, call),
                                    !.runs = Append(@, run),
                                    !.failed_call =
                                        IF ret # 0 THEN Len(s.calls) + 1
                                        ELSE @,
                                    !.oob_read = @ \/ r.oob_read,
                                    !.oob_write = @ \/ r.oob_write],
                          r, ret)
             IN  IF t.failed
                 THEN t
                 ELSE psc_loop(t, junk, fail_at, seen \cup {s.desc})

\* Variant: the descriptor is copied back only when no conversion failed.
PscWriteBack_on_success(s, map2_ok) == map2_ok /\ ~s.failed

\* The memcpy into the guest's buffer is reached when the second mapping has
\* the full length.
PscWriteBack(s, map2_ok) == map2_ok

\* What another vCPU of the guest writes into the shared buffer while the
\* handler runs: a request for a frame that no descriptor of PscDescs names.
RacingWrite ==
    [cur_entry |-> 0, end_entry |-> 0,
     entries |-> [i \in 0..(MaxPscEntry - 1) |->
                     psc_entry(40, GHCB_MSR_PSC_OP_SHARED, 0, 0)]]

\* Variant: the loop works on the mapped buffer of the guest.
PscWorkingCopy_mapped(copied, current) == current

\* desc = (struct snp_psc_desc *)shared_buf: the loop works on the local
\* array filled by the memcpy made at entry, not on the guest's buffer.
PscWorkingCopy(copied, current) == copied

\* kvm_handle_vmgexit_psc, called by kvm_handle_vmgexit, which returns its
\* return value (rc).  given is the content of the guest's shared buffer at
\* entry; map1_ok, map2_ok: address_space_map returns the full length; junk:
\* what entries beyond the array read as; crash: an access beyond the array
\* faults; race: the guest writes RacingWrite into the buffer after the
\* copy made at entry and before the second mapping.
kvm_handle_vmgexit_psc(given, map1_ok, map2_ok, fail_at, junk, crash, race) ==
    /\ alive
    /\ psc.type = "none"
    /\ LET s0 == [NoPsc EXCEPT !.type = "psc", !.given = given, !.maps = 1,
                               !.unmaps = 1, !.raced = map1_ok /\ race,
                               !.fail_at = fail_at, !.junk = junk]
           current == IF map1_ok /\ race THEN RacingWrite ELSE given
           s1 == psc_loop([s0 EXCEPT !.desc = PscWorkingCopy(given, current)],
                          junk, fail_at, {})
       IN  IF ~map1_ok
           THEN /\ psc' = [s0 EXCEPT !.short = "first",
                                     !.ret = PSC_ERROR_GENERIC,
                                     !.returned = TRUE]
                /\ shared_buf' = given
                /\ alive' = alive
           ELSE IF (s1.oob_read \/ s1.oob_write) /\ crash
           THEN /\ psc' = s1
                /\ shared_buf' = current
                /\ alive' = FALSE
           ELSE IF s1.hang
           THEN /\ psc' = s1
                /\ shared_buf' = current
                /\ alive' = alive
           ELSE /\ psc' = [s1 EXCEPT
                              !.short = IF map2_ok THEN "none" ELSE "second",
                              !.ret = IF map2_ok THEN @
                                      ELSE PSC_ERROR_GENERIC,
                              !.wrote_back = PscWriteBack(s1, map2_ok),
                              !.maps = 2, !.unmaps = 2,
                              !.returned = TRUE]
                /\ shared_buf' = IF PscWriteBack(s1, map2_ok) THEN s1.desc
                                 ELSE current
                /\ alive' = alive
    /\ UNCHANGED <<guest, kernel_hashes, state, sev_fd, measurement, cmds,
                   launch_update, sev_mig_blocker, notifiers, init_called,
                   machine_done, nwrites, nsecrets, last, launch_vmsa,
                   vmsa_tail_linked, cpu_env, seg, ext_req, hashes>>

\* An int stored into a __u32.
ToU32(n) ==
    IF n >= 0
    THEN U32(n \div 65536, n % 65536)
    ELSE U32(32768 + ((n + 2147483647) + 1) \div 65536,
             ((n + 2147483647) + 1) % 65536)

\* The __u32 read as an int again.
AsInt(u) ==
    IF u.hi16 < 32768
    THEN u.hi16 * 65536 + u.lo16
    ELSE (((u.hi16 - 32768) * 65536 + u.lo16) - 2147483647) - 1

\* What kvm_convert_memory returns: 0, -1 or a negative errno (-EINVAL).
ConvertStatuses == {0, -1, -22}

\* The values of run->vmgexit.psc_msr.gpa and .op taken in the model.
PscMsrGpas == {40960, 45056}
PscMsrOps == 0..3

\* Variant: every operation but the to-shared one converts to private.
psc_msr_to_private_unless_shared(op) == op # GHCB_MSR_PSC_OP_SHARED

\* op == KVM_USER_VMGEXIT_PSC_MSR_OP_PRIVATE
psc_msr_to_private(op) == op = KVM_USER_VMGEXIT_PSC_MSR_OP_PRIVATE

\* return ret
psc_msr_return(ret) == ret

\* kvm_handle_vmgexit_psc_msr_protocol, called by kvm_handle_vmgexit, which
\* returns its return value (rc).  status is what kvm_convert_memory returns.
kvm_handle_vmgexit_psc_msr_protocol(gpa, op, status) ==
    /\ alive
    /\ psc.type = "none"
    /\ psc' = [NoPsc EXCEPT
                  !.type = "psc_msr",
                  !.msr = [gpa |-> gpa, op |-> op],
                  !.calls = <<[start |-> gpa, size |-> TARGET_PAGE_SIZE,
                               to_private |-> psc_msr_to_private(op)]>>,
                  !.failed = status # 0,
                  !.status = status,
                  !.msr_ret = ToU32(status),
                  !.rc = psc_msr_return(status),
                  !.returned = TRUE]
    /\ UNCHANGED <<launch_vars, seg, shared_buf, ext_req, hashes>>

\* The guest has written a descriptor into its shared buffer, or it has not
\* touched the buffer and uses the MSR protocol.
InitPsc ==
    /\ InitLaunch
    /\ guest = "snp" /\ ~kernel_hashes
    /\ cpu_env = [i \in CpuIndexes |-> 0]
    /\ seg = NoSeg
    /\ shared_buf \in PscDescs \cup {NoDesc}
    /\ psc = NoPsc
    /\ ext_req = NoExtReq
    /\ hashes = NoHashes(ZeroPadding)

\* What lies beyond the array matters only when the header makes the
\* handler go there.
PscBeyond(given) ==
    given.cur_entry <= given.end_entry /\ given.end_entry >= MaxPscEntry

\* The number of kvm_convert_memory calls the loop makes for this descriptor
\* when none of them fails (up to the iteration that repeats a descriptor):
\* each of them can be the one that fails.
PscCallsMade(given, junk) ==
    Len(psc_loop([NoPsc EXCEPT !.type = "psc", !.given = given,
                               !.desc = given], junk, 0, {}).calls)

NextPsc ==
    \/ /\ psc.type = "none" /\ shared_buf \in PscDescs
       /\ \E given \in {shared_buf}, map1_ok \in BOOLEAN :
             \E junk \in (IF map1_ok /\ PscBeyond(given) THEN JunkEntries
                          ELSE {psc_entry(0, 0, 0, 0)}) :
                \E fail_at \in (IF map1_ok THEN 0..PscCallsMade(given, junk)
                                ELSE {0}),
                   crash \in (IF map1_ok /\ PscBeyond(given) THEN BOOLEAN
                              ELSE {FALSE}),
                   race \in (IF map1_ok THEN BOOLEAN ELSE {FALSE}) :
                   \E map2_ok \in (IF map1_ok /\ ~crash THEN BOOLEAN
                                    ELSE {TRUE}) :
                      kvm_handle_vmgexit_psc(given, map1_ok, map2_ok,
                                             fail_at, junk, crash, race)
    \/ /\ psc.type = "none" /\ shared_buf = NoDesc
       /\ \E gpa \in PscMsrGpas, op \in PscMsrOps,
             status \in ConvertStatuses :
                kvm_handle_vmgexit_psc_msr_protocol(gpa, op, status)

SpecPsc == InitPsc /\ [][NextPsc]_vars

(***************************************************************************)
(* The extended guest request (KVM_USER_VMGEXIT_EXT_GUEST_REQ): the guest  *)
(* asks for the certificate bundle.                                        *)
(***************************************************************************)
SNP_EXT_REQ_ERROR_INVALID_LEN == 1

\* (1 << 31), stored into the __u32 *vmm_ret
SNP_EXT_REQ_ERROR_GENERIC == U32(32768, 0)

\* The lengths of the certificate bundle read from certs_path: empty, one
\* byte, exactly one and two pages, and one byte more than one and two pages.
CertSizes ==
    {0, 1, TARGET_PAGE_SIZE, TARGET_PAGE_SIZE + 1, 2 * TARGET_PAGE_SIZE,
     2 * TARGET_PAGE_SIZE + 1}

\* certs_path is NULL; or g_file_get_contents fails; or it yields sz bytes.
CertBundles ==
    {[path |-> FALSE, readable |-> FALSE, sz |-> 0],
     [path |-> TRUE, readable |-> FALSE, sz |-> 0]}
    \cup [path : {TRUE}, readable : {TRUE}, sz : CertSizes]

\* Variant: without a certs_path the error set at entry is left in place.
ext_req_without_certs_generic(r) == r

\* !sev_snp_guest->certs_path: *vmm_ret = 0; return 0
ext_req_without_certs(r) == [r EXCEPT !.vmm_ret = ToU32(0)]

\* The page count reported with SNP_EXT_REQ_ERROR_INVALID_LEN.
ext_req_pages_needed(sz) == (sz + TARGET_PAGE_SIZE) \div TARGET_PAGE_SIZE

\* kvm_handle_vmgexit_ext_req, called by kvm_handle_vmgexit, which returns
\* its return value (rc).  npages is *npages at entry, mapped the number of
\* pages address_space_map maps (it can shorten the length), fault: a read
\* beyond the memory g_file_get_contents allocated (sz bytes and a
\* terminating zero byte) faults.
kvm_handle_vmgexit_ext_req(npages, bundle, mapped, fault) ==
    /\ alive
    /\ ~ext_req.handled
    /\ LET r0 == [NoExtReq EXCEPT !.handled = TRUE,
                                  !.vmm_ret = SNP_EXT_REQ_ERROR_GENERIC,
                                  !.given_npages = npages,
                                  !.npages = npages,
                                  !.bundle = bundle]
           buf_sz == npages * TARGET_PAGE_SIZE
           mapped_sz == mapped * TARGET_PAGE_SIZE
       IN  IF ~sev_snp_enabled
           THEN ext_req' = r0 /\ alive' = alive
           ELSE IF ~bundle.path
           THEN ext_req' = ext_req_without_certs(r0) /\ alive' = alive
           ELSE IF ~bundle.readable
           THEN ext_req' = r0 /\ alive' = alive
           ELSE IF buf_sz < bundle.sz
           THEN /\ ext_req' =
                     [r0 EXCEPT
                         !.vmm_ret = ToU32(SNP_EXT_REQ_ERROR_INVALID_LEN),
                         !.npages = ext_req_pages_needed(bundle.sz)]
                /\ alive' = alive
           ELSE IF mapped_sz < bundle.sz
           THEN /\ ext_req' = [r0 EXCEPT !.maps = 1, !.unmaps = 1]
                /\ alive' = alive
           ELSE IF mapped_sz > bundle.sz + 1 /\ fault
           THEN /\ ext_req' = [r0 EXCEPT !.maps = 1]
                /\ alive' = FALSE
           ELSE /\ ext_req' = [r0 EXCEPT !.maps = 1, !.unmaps = 1,
                                         !.copied = mapped_sz,
                                         !.vmm_ret = ToU32(0)]
                /\ alive' = alive
    /\ UNCHANGED <<guest, kernel_hashes, state, sev_fd, measurement, cmds,
                   launch_update, sev_mig_blocker, notifiers, init_called,
                   machine_done, nwrites, nsecrets, last, launch_vmsa,
                   vmsa_tail_linked, cpu_env, seg, shared_buf, psc, hashes>>

InitExtReq ==
    /\ InitLaunch
    /\ cpu_env = [i \in CpuIndexes |-> 0]
    /\ InitRuntime

NextExtReq ==
    /\ ~ext_req.handled
    /\ \E npages \in 0..MaxNpages, bundle \in CertBundles :
         \E mapped \in 0..npages, fault \in BOOLEAN :
            kvm_handle_vmgexit_ext_req(npages, bundle, mapped, fault)

SpecExtReq == InitExtReq /\ [][NextExtReq]_vars

(***************************************************************************)
(* The kernel hashes table: sev_add_kernel_loader_hashes and               *)
(* build_kernel_loader_hashes.                                             *)
(***************************************************************************)
\* What the padding bytes of the destination hold before the build.
PaddingPatterns ==
    {ZeroPadding,
     [i \in 1..SizeofPadding |-> 255],
     [i \in 1..SizeofPadding |-> IF i = SizeofPadding THEN 1 ELSE 0]}

\* SevKernelLoaderContext: the lengths of the command line (its terminating
\* zero byte included), of the initrd, of the setup data and of the kernel.
KernelLoaderContexts ==
    [cmdline_size : {1, 2}, initrd_size : {0, 1}, setup_size : {0, 1},
     kernel_size : {1, 2}]

\* SHA-256 of the buffers of parts taken as one stream: buffers of length 0
\* add nothing to it.
Sha256(parts) ==
    [alg |-> "SHA256", stream |-> SelectSeq(parts, LAMBDA b : b.len > 0)]

\* The hash computation that fails (qcrypto_hash_bytes returns < 0).
HashFailures == {"none", "cmdline", "initrd", "kernel"}

\* The table build_kernel_loader_hashes writes into ht.
BuiltTable(ctx) ==
    [guid |-> "sev_hash_table_header_guid",
     len |-> SizeofSevHashTable,
     cmdline |-> SevHashTableEntry(
                     "sev_cmdline_entry_guid", SizeofSevHashTableEntry,
                     Sha256(<<[buf |-> "cmdline", len |-> ctx.cmdline_size]>>)),
     initrd |-> SevHashTableEntry(
                    "sev_initrd_entry_guid", SizeofSevHashTableEntry,
                    Sha256(<<[buf |-> "initrd", len |-> ctx.initrd_size]>>)),
     kernel |-> SevHashTableEntry(
                    "sev_kernel_entry_guid", SizeofSevHashTableEntry,
                    Sha256(<<[buf |-> "setup", len |-> ctx.setup_size],
                             [buf |-> "kernel", len |-> ctx.kernel_size]>>))]

\* Variant: the padding is left as the destination held it.
build_kernel_loader_hashes_no_memset(padded_ht, ctx, hash_fail) ==
    IF hash_fail # "none"
    THEN [ok |-> FALSE, padded_ht |-> padded_ht]
    ELSE [ok |-> TRUE,
          padded_ht |-> PaddedSevHashTable(BuiltTable(ctx),
                                           padded_ht.padding)]

\* build_kernel_loader_hashes: the three hashes are computed first, and a
\* failure returns false before the destination is written.
build_kernel_loader_hashes(padded_ht, ctx, hash_fail) ==
    IF hash_fail # "none"
    THEN [ok |-> FALSE, padded_ht |-> padded_ht]
    ELSE [ok |-> TRUE,
          padded_ht |-> PaddedSevHashTable(
                            BuiltTable(ctx),
                            [i \in DOMAIN padded_ht.padding |-> 0])]

\* The guest address of the hashes area (area->base).
HashesAreaBase == 3

\* What the firmware and the host answer to sev_add_kernel_loader_hashes:
\* the table GUID is found, the area is valid, address_space_map returns the
\* full length ("full"), a shorter one ("short") or NULL ("null"), the hash
\* that fails, the LAUNCH_UPDATE_DATA ioctl succeeds.
HashesEnvs ==
    [table_found : BOOLEAN, area_ok : BOOLEAN,
     map : {"full", "short", "null"}, hash_fail : HashFailures,
     ioctl_ok : BOOLEAN]

\* The loader adds the hashes after the configuration (sev_kvm_init) and
\* before the machine-init-done notification.
KernelLoaderRuns ==
    alive /\ init_called /\ ~machine_done
    /\ sev_check_state(SEV_STATE_LAUNCH_UPDATE)

sev_add_kernel_loader_hashes(ctx, e) ==
    /\ KernelLoaderRuns
    /\ ~hashes.called
    /\ LET h0 == [hashes EXCEPT !.called = TRUE]
           staged == build_kernel_loader_hashes(
                         PaddedSevHashTable(NoTable, ZeroPadding), ctx,
                         e.hash_fail)
           mapped == build_kernel_loader_hashes(hashes.area, ctx,
                                                e.hash_fail)
           len == U64(0, SizeofPaddedSevHashTable)
           ptr == HvaOf(HashesAreaBase)
           flash == mapped.ok /\ EncryptFlashActs
           ret == IF flash
                  THEN sev_launch_update_data_ret(ptr, len, e.ioctl_ok)
                  ELSE 0
       IN  IF ~kernel_hashes
           THEN /\ hashes' = h0
                /\ UNCHANGED <<cmds, nwrites>>
           ELSE IF ~e.table_found \/ ~e.area_ok
           THEN /\ hashes' = [h0 EXCEPT !.err = "errp"]
                /\ UNCHANGED <<cmds, nwrites>>
           ELSE IF sev_snp_enabled
           THEN /\ hashes' =
                     [h0 EXCEPT !.data_set = TRUE,
                                !.kernel_hashes_data = staged.padded_ht,
                                !.built = staged.ok,
                                !.rc = staged.ok,
                                !.err = IF staged.ok THEN "none" ELSE "errp"]
                /\ UNCHANGED <<cmds, nwrites>>
           ELSE IF e.map # "full"
           THEN /\ hashes' =
                     [h0 EXCEPT !.err = "errp",
                                !.maps = IF e.map = "short" THEN 1 ELSE 0]
                /\ UNCHANGED <<cmds, nwrites>>
           ELSE /\ hashes' =
                     [h0 EXCEPT !.area = mapped.padded_ht,
                                !.built = mapped.ok,
                                !.rc = mapped.ok /\ ret >= 0,
                                !.err = IF mapped.ok /\ ret >= 0 THEN "none"
                                        ELSE "errp",
                                !.maps = 1, !.unmaps = 1]
                /\ cmds' = IF flash
                           THEN cmds \o sev_launch_update_data_cmds(
                                            ptr, len, e.ioctl_ok)
                           ELSE cmds
                /\ nwrites' = IF flash THEN nwrites + 1 ELSE nwrites
    /\ UNCHANGED <<guest, kernel_hashes, state, alive, sev_fd, measurement,
                   launch_update, sev_mig_blocker, notifiers, init_called,
                   machine_done, nsecrets, last, launch_vmsa,
                   vmsa_tail_linked, cpu_env, seg, shared_buf, psc, ext_req>>

\* The kernel-hashes property can be set for every guest type.
InitHashes ==
    /\ guest \in GuestTypes
    /\ kernel_hashes \in BOOLEAN
    /\ InitLaunchState
    /\ cpu_env = [i \in CpuIndexes |-> 0]
    /\ seg = NoSeg
    /\ shared_buf = NoDesc
    /\ psc = NoPsc
    /\ ext_req = NoExtReq
    /\ hashes \in {NoHashes(p) : p \in PaddingPatterns}

NextHashes ==
    \/ \E e \in InitEnvs : sev_kvm_init(e)
    \/ /\ KernelLoaderRuns /\ ~hashes.called
       /\ \E ctx \in KernelLoaderContexts, e \in HashesEnvs :
             sev_add_kernel_loader_hashes(ctx, e)

SpecHashes == InitHashes /\ [][NextHashes]_vars

(***************************************************************************)
(* An SNP guest from its configuration to the finish: the loader stages    *)
(* the hashes table (or does not run), snp_launch_update_kernel_hashes     *)
(* copies it to the kernel-hashes metadata page.                           *)
(***************************************************************************)
InitSnpHashes ==
    /\ InitHashes
    /\ guest = "snp"

NextSnpHashes ==
    \/ \E e \in InitEnvs : sev_kvm_init(e)
    \/ /\ KernelLoaderRuns /\ ~hashes.called
       /\ \E ctx \in KernelLoaderContexts, e \in HashesEnvs :
             sev_add_kernel_loader_hashes(ctx, e)
    \/ \E vmsa_ok \in BOOLEAN, len \in 0..MaxMeasureLen, get_ok \in BOOLEAN :
           MachineInitDone(vmsa_ok, len, get_ok)
    \/ \E e \in FinishEnvs : sev_vm_state_change(TRUE, e)

SpecSnpHashes == InitSnpHashes /\ [][NextSnpHashes]_vars

(***************************************************************************)
(* Properties of the launch state machine.                                 *)
(***************************************************************************)
CmdIdx(c) == {i \in DOMAIN cmds : cmds[i].cmd = c}
Issued(c) == CmdIdx(c) # {}
FinishCmds == CmdIdx("LAUNCH_FINISH") \cup CmdIdx("SNP_LAUNCH_FINISH")

\* C1: the launch state is always one of UNINIT, LAUNCH_UPDATE, LAUNCH_SECRET,
\* RUNNING, and no step of any operation moves it to an earlier value.
C1_StateForwardOnly ==
    /\ [](state \in {SEV_STATE_UNINIT, SEV_STATE_LAUNCH_UPDATE,
                     SEV_STATE_LAUNCH_SECRET, SEV_STATE_RUNNING})
    /\ [][state' >= state]_vars

\* A guest that went through all four states.
C1_Witness ==
    /\ state = SEV_STATE_RUNNING
    /\ measurement # 0
    /\ Issued("LAUNCH_START")

\* C2 (as claimed): for a non-SNP guest every change of state goes to the
\* next state of UNINIT -> LAUNCH_UPDATE -> LAUNCH_SECRET -> RUNNING; no run
\* request moves LAUNCH_UPDATE directly to RUNNING.
C2_NoSkippedPredecessor ==
    [][(~sev_snp_enabled /\ state' # state) => state' = state + 1]_vars

\* C3: an injection made outside LAUNCH_SECRET returns 1 with the state error,
\* issues no platform command and leaves state and measurement unchanged.
C3_SecretRejectedOutsideWindow ==
    [][(last'.op = "inject_secret" /\ state # SEV_STATE_LAUNCH_SECRET)
          => /\ last'.rc = 1 /\ last'.err = "state"
             /\ cmds' = cmds
             /\ state' = state
             /\ measurement' = measurement
             /\ UNCHANGED <<alive, launch_update, sev_mig_blocker>>]_vars

\* An injection was rejected in LAUNCH_UPDATE.
C3_Witness ==
    /\ last = Result("inject_secret", 1, "state")
    /\ state = SEV_STATE_LAUNCH_UPDATE

\* C4 (as claimed): once a LAUNCH_MEASURE command has failed the process has
\* terminated.
C4_MeasureFailureFatal ==
    (\E i \in CmdIdx("LAUNCH_MEASURE") : ~cmds[i].ok) => ~alive

\* C5: for an SEV-ES guest every LAUNCH_MEASURE is preceded by a successful
\* LAUNCH_UPDATE_VMSA; a failed LAUNCH_UPDATE_VMSA ends the process and no
\* LAUNCH_MEASURE is issued.
C5_VmsaBeforeMeasure ==
    guest = "es" =>
        /\ \A i \in CmdIdx("LAUNCH_MEASURE") :
               \E j \in CmdIdx("LAUNCH_UPDATE_VMSA") : j < i /\ cmds[j].ok
        /\ (\E j \in CmdIdx("LAUNCH_UPDATE_VMSA") : ~cmds[j].ok)
               => ~alive /\ ~Issued("LAUNCH_MEASURE")

\* An SEV-ES guest whose measurement was retrieved.
C5_Witness ==
    /\ guest = "es"
    /\ Issued("LAUNCH_MEASURE")
    /\ state = SEV_STATE_LAUNCH_SECRET

\* C6: the finish command is issued at most once; a run event outside RUNNING
\* carries out the finish within the event (reaching RUNNING or exiting); a
\* run event in RUNNING and every stop event issue nothing and change nothing.
C6_FinishAtMostOnce ==
    /\ [](Cardinality(FinishCmds) <= 1)
    /\ [][(last'.op = "run" /\ state # SEV_STATE_RUNNING)
             => (state' = SEV_STATE_RUNNING \/ ~alive')]_vars
    /\ [][(\/ last'.op = "stop"
           \/ last'.op = "run" /\ state = SEV_STATE_RUNNING)
             => UNCHANGED <<cmds, state, alive, measurement, launch_update,
                            sev_mig_blocker, notifiers>>]_vars

\* A stop event received by a running guest.
C6_Witness ==
    /\ state = SEV_STATE_RUNNING
    /\ last.op = "stop"
    /\ Cardinality(FinishCmds) = 1

FinishName == IF sev_snp_enabled THEN "SNP_LAUNCH_FINISH" ELSE "LAUNCH_FINISH"

\* C7: RUNNING only after a successful finish command of the variant; for SNP
\* the commands right before it are, for every queued entry in order, a
\* successful SNP_LAUNCH_UPDATE and a successful private conversion.  After a
\* failed update, conversion or finish the process is dead and not RUNNING.
C7_RunningOnlyAfterFinish ==
    /\ state = SEV_STATE_RUNNING =>
         \E i \in CmdIdx(FinishName) :
            /\ cmds[i].ok
            /\ sev_snp_enabled =>
                 LET n == Len(launch_update) IN
                 /\ i > 2 * n
                 /\ \A k \in 1..n :
                      /\ cmds[i - 2 * (n - k) - 2] =
                             UpdateCmd(launch_update[k], TRUE)
                      /\ cmds[i - 2 * (n - k) - 1] =
                             ConvertCmd(launch_update[k], TRUE)
    /\ (\E i \in DOMAIN cmds :
           /\ cmds[i].cmd \in {"SNP_LAUNCH_UPDATE", "CONVERT_PRIVATE",
                               "LAUNCH_FINISH", "SNP_LAUNCH_FINISH"}
           /\ ~cmds[i].ok)
         => ~alive /\ state # SEV_STATE_RUNNING

\* An SNP guest running after a drain of at least two entries.
C7_Witness ==
    /\ sev_snp_enabled
    /\ state = SEV_STATE_RUNNING
    /\ Len(launch_update) >= 2

\* C8: a live process in RUNNING has the migration blocker installed (a
\* failed installation ends the process), and the blocker is never removed.
C8_MigrationBlocked ==
    /\ [](state = SEV_STATE_RUNNING => (sev_mig_blocker \/ ~alive))
    /\ [][sev_mig_blocker => sev_mig_blocker']_vars

\* A running guest with the blocker installed, after a later operation.
C8_Witness ==
    /\ state = SEV_STATE_RUNNING /\ alive /\ sev_mig_blocker
    /\ last.op \in {"stop", "encrypt_flash", "inject_secret"}

IsSnpUpdate(c) == c.cmd = "SNP_LAUNCH_UPDATE"
SnpUpdatesSent == SelectSeq(cmds, IsSnpUpdate)
EntryOf(c) == [gpa |-> c.gpa, hva |-> c.hva, len |-> c.len, type |-> c.type]

\* C9: the SNP_LAUNCH_UPDATE commands sent are the queue, entry by entry in
\* queue order, up to the first entry that fails: a failed update or
\* conversion is the last thing the process does, every entry before the
\* failing one was sent, none after it, none twice; in RUNNING every entry
\* was sent once.  The queue itself only ever grows at its tail.
C9_DrainInOrder ==
    /\ [](sev_snp_enabled =>
            LET sent == SnpUpdatesSent
                n == Len(sent)
            IN /\ n <= Len(launch_update)
               /\ \A i \in 1..n : EntryOf(sent[i]) = launch_update[i]
               /\ \A i \in DOMAIN cmds :
                     (cmds[i].cmd \in {"SNP_LAUNCH_UPDATE", "CONVERT_PRIVATE"}
                      /\ ~cmds[i].ok) => (i = Len(cmds) /\ ~alive)
               /\ (state = SEV_STATE_RUNNING => n = Len(launch_update))
               /\ (alive /\ state # SEV_STATE_RUNNING => n = 0)
               /\ (0 < n /\ n < Len(launch_update)) =>
                     /\ ~alive
                     /\ \/ ~cmds[Len(cmds)].ok
                        \/ sev_snp_launch_update_invalid(launch_update[n + 1]))
    /\ [][/\ Len(launch_update') >= Len(launch_update)
          /\ SubSeq(launch_update', 1, Len(launch_update)) = launch_update]_vars

\* The platform rejected the 3rd of 5 queued entries: three commands sent.
C9_Witness ==
    /\ sev_snp_enabled /\ ~alive
    /\ Len(launch_update) = 5
    /\ Len(SnpUpdatesSent) = 3
    /\ ~SnpUpdatesSent[3].ok
    /\ launch_update[1].gpa # launch_update[2].gpa

QueuedByWrite(i) == i <= nwrites

\* C11 (as claimed): at SNP finish every SNP_LAUNCH_UPDATE for a metadata page
\* is sent before every SNP_LAUNCH_UPDATE for an entry queued by a guest write.
C11_MetadataBeforeGuestContent ==
    sev_snp_enabled =>
        \A i, j \in 1..Len(SnpUpdatesSent) :
            (QueuedByWrite(i) /\ ~QueuedByWrite(j)) => j < i

ConfigFailures == {"cbitpos", "reduced_phys_bits", "irqchip"}

\* C13 (as claimed): when init fails on a configuration error (C-bit position,
\* reduced-physical-bits, in-kernel interrupt routing missing for ES or SNP)
\* the platform device has not been opened and no command has been issued.
C13_ConfigErrorsBeforeOpen ==
    (last.op = "init" /\ last.why \in ConfigFailures)
        => (~sev_fd /\ cmds = <<>>)

NoNotifiers == [ram |-> FALSE, machine_done |-> FALSE, vm_change |-> FALSE]

\* C14: a successful init leaves the state at LAUNCH_UPDATE with the run-state
\* handler registered for every variant and the RAM-block and
\* machine-init-done notifiers registered iff the guest is not SNP; a failed
\* init leaves the state at UNINIT and registers none of the three.  Nothing
\* changes the registrations afterwards.
C14_InitRegistrations ==
    /\ [][last'.op = "init" =>
            IF last'.rc = 0
            THEN /\ state' = SEV_STATE_LAUNCH_UPDATE
                 /\ notifiers'.vm_change
                 /\ notifiers'.ram <=> ~sev_snp_enabled
                 /\ notifiers'.machine_done <=> ~sev_snp_enabled
            ELSE /\ state' = SEV_STATE_UNINIT
                 /\ notifiers' = NoNotifiers]_vars
    /\ [][init_called => notifiers' = notifiers]_vars
    /\ [](~init_called => notifiers = NoNotifiers)

\* A successful init of an SNP guest.
C14_Witness ==
    /\ sev_snp_enabled
    /\ last.op = "init" /\ last.rc = 0
    /\ state = SEV_STATE_LAUNCH_UPDATE
    /\ notifiers.vm_change

\* C15: the launch-measurement query returns a measurement (the stored one)
\* only for a non-SNP guest in LAUNCH_SECRET or RUNNING; in UNINIT and
\* LAUNCH_UPDATE, and for every SNP guest, it reports "not available".
C15_MeasurementAvailability ==
    [][last'.op = "query_measure" =>
          /\ last'.rc # 0 =>
                /\ ~sev_snp_enabled
                /\ state \in {SEV_STATE_LAUNCH_SECRET, SEV_STATE_RUNNING}
                /\ last'.rc = measurement
                /\ last'.err = "none"
          /\ (\/ sev_snp_enabled
              \/ state \in {SEV_STATE_UNINIT, SEV_STATE_LAUNCH_UPDATE}) =>
                /\ last'.rc = 0
                /\ last'.err = "not_available"
          /\ UNCHANGED <<state, measurement, cmds>>
       ]_vars

\* A query answered with the measurement while the guest runs.
C15_Witness ==
    /\ last.op = "query_measure"
    /\ last.rc # 0 /\ last.rc = measurement
    /\ state = SEV_STATE_RUNNING

\* C16: an SNP guest is only ever in UNINIT, LAUNCH_UPDATE or RUNNING, no
\* LAUNCH_MEASURE (nor LAUNCH_SECRET) command is ever issued for it, and every
\* secret injection on it returns 1 with the state error.
C16_SnpSkipsSecretState ==
    sev_snp_enabled =>
        /\ state \in {SEV_STATE_UNINIT, SEV_STATE_LAUNCH_UPDATE,
                      SEV_STATE_RUNNING}
        /\ ~Issued("LAUNCH_MEASURE")
        /\ ~Issued("LAUNCH_SECRET")
        /\ measurement = 0
        /\ last.op = "inject_secret" => (last.rc = 1 /\ last.err = "state")

\* An SNP guest that went through machine-init-done and the finish, and then
\* had a secret injection rejected.
C16_Witness ==
    /\ sev_snp_enabled
    /\ machine_done
    /\ state = SEV_STATE_RUNNING
    /\ last = Result("inject_secret", 1, "state")

\* C17: the machine-init-done handler invoked in a state other than
\* LAUNCH_UPDATE issues no command and leaves state, measurement and the rest
\* unchanged; the measurement, once stored, never changes.
C17_NotifyOutsideUpdateIsNoOp ==
    /\ [][(last'.op = "machine_done" /\ state # SEV_STATE_LAUNCH_UPDATE) =>
             /\ cmds' = cmds
             /\ state' = state
             /\ measurement' = measurement
             /\ UNCHANGED <<alive, launch_update, sev_mig_blocker, sev_fd>>
             /\ last'.rc = 0 /\ last'.err = "none"]_vars
    /\ [][measurement # 0 => measurement' = measurement]_vars
    /\ [][measurement' # measurement =>
             /\ last'.op = "machine_done"
             /\ state = SEV_STATE_LAUNCH_UPDATE
             /\ state' = SEV_STATE_LAUNCH_SECRET]_vars

\* The handler was invoked while the guest was RUNNING with its measurement.
C17_Witness ==
    /\ last.op = "machine_done"
    /\ state = SEV_STATE_RUNNING
    /\ measurement # 0

\* C18: an injection made in LAUNCH_SECRET never ends the process and leaves
\* the state at LAUNCH_SECRET, whether its LAUNCH_SECRET command fails (a
\* non-zero result with the error set) or succeeds (result 0).
C18_SecretFailureNotFatal ==
    [][(last'.op = "inject_secret" /\ state = SEV_STATE_LAUNCH_SECRET) =>
          /\ alive'
          /\ state' = SEV_STATE_LAUNCH_SECRET
          /\ measurement' = measurement
          /\ cmds' # cmds =>
                /\ cmds' = Append(cmds, cmds'[Len(cmds')])
                /\ cmds'[Len(cmds')].cmd = "LAUNCH_SECRET"
                /\ IF cmds'[Len(cmds')].ok
                   THEN last'.rc = 0 /\ last'.err = "none"
                   ELSE last'.rc # 0 /\ last'.err = "ioctl"
          /\ cmds' = cmds => (last'.rc = 1 /\ last'.err # "none")
       ]_vars

\* An injection whose command failed, followed by one that succeeded.
C18_Witness ==
    /\ state = SEV_STATE_LAUNCH_SECRET /\ alive
    /\ last = Result("inject_secret", 0, "none")
    /\ \E i, j \in CmdIdx("LAUNCH_SECRET") :
          i < j /\ ~cmds[i].ok /\ cmds[j].ok

\* C19 (as claimed): the store holds at most one entry per processor index;
\* after a set that was not rejected, the entry of its index holds the
\* snapshot passed; a rejected set leaves the store unchanged.
C19_StoreHoldsLastSet ==
    /\ [](\A i, j \in DOMAIN launch_vmsa :
            launch_vmsa[i].cpu_index = launch_vmsa[j].cpu_index => i = j)
    /\ []((last.op = "set_cpu_context" /\ last.err # "rejected") =>
            /\ VmsaLookup(last.arg[1]) # 0
            /\ launch_vmsa[VmsaLookup(last.arg[1])].vmsa = last.arg[2])
    /\ [][(last'.op = "set_cpu_context" /\ last'.err = "rejected") =>
             launch_vmsa' = launch_vmsa]_vars

C21_PackExpandIsIdentity ==
    seg.done => seg.back = seg.attrib

\* C21 (amended): packing the expansion of a gives a with its bits 12..15
\* cleared; it gives a exactly when a < 0x1000.
C21_PackExpandKeepsLow12 ==
    seg.done =>
        /\ seg.back = seg.attrib % 4096
        /\ (seg.back = seg.attrib) <=> (seg.attrib < 4096)
        /\ seg.flags % 256 = 0
        /\ BitField(seg.flags, 8, 8) = seg.attrib % 256
        /\ BitField(seg.flags, 20, 8) = BitField(seg.attrib, 8, 8)

\* The attribute 0xa9b of a 64-bit code segment came back unchanged.
C21_Witness ==
    /\ seg.done
    /\ seg.attrib = 2715
    /\ seg.back = 2715
    /\ seg.flags = 10485760 + 39680

(***************************************************************************)
(* Properties of the page-state-change handlers.                           *)
(***************************************************************************)
\* The pages of the k entries of d from index first on.
RECURSIVE RunPages(_, _, _)
RunPages(d, first, k) ==
    IF k = 0 THEN 0
    ELSE RunPages(d, first, k - 1) + PageCount(d.entries[first + k - 1])

\* The direction an entry asks for.
EntryToPrivate(e) == e.operation = GHCB_MSR_PSC_OP_PRIVATE

RunsPartition(d, runs) ==
    /\ runs # <<>>
    /\ runs[1].first = d.cur_entry
    /\ \A c \in DOMAIN runs :
         /\ runs[c].n >= 1
         /\ c > 1 => runs[c].first = runs[c - 1].first + runs[c - 1].n
    /\ runs[Len(runs)].first + runs[Len(runs)].n - 1 = d.end_entry

\* What C23 says of a request whose header stays within the array and whose
\* conversions all succeed, and of a request with cur_entry > end_entry.
AllConverted ==
    LET d == psc.given
    IN  /\ (d.cur_entry <= d.end_entry /\ d.end_entry <= MaxPscEntry - 1) =>
              /\ psc.returned
              /\ psc.ret = ZeroLen
              /\ shared_buf.cur_entry = d.end_entry + 1
              /\ Len(psc.calls) = Len(psc.runs)
              /\ RunsPartition(d, psc.runs)
              /\ \A j \in d.cur_entry..d.end_entry :
                   shared_buf.entries[j].cur_page = PageCount(d.entries[j])
        /\ d.cur_entry > d.end_entry =>
              /\ psc.returned
              /\ psc.calls = <<>>
              /\ psc.ret = ZeroLen

\* What the guest's shared buffer holds when the handler has not written to
\* it: what the guest wrote last.
GuestWrote == IF psc.raced THEN RacingWrite ELSE psc.given

\* C23 (as claimed): for a descriptor with cur_entry <= end_entry <= 252 and
\* every conversion succeeding, the handler ends with result 0 and cur_entry
\* = end_entry + 1, the calls cover cur_entry..end_entry in order, each entry
\* in exactly one call, and each of these entries has its full progress
\* counter; with cur_entry > end_entry there is no call and the result is 0.
C23_AllConvertedAsClaimed ==
    (psc.type = "psc" /\ ~psc.failed) => AllConverted

\* C23 (amended): the same, for the requests in which the shared buffer is
\* mapped in full both at entry and for the write-back; when a mapping comes
\* back short, the result is the sentinel 0x100 << 32 and the guest's buffer
\* keeps the header and the counters it had.
C23_AllConvertedWhenMapped ==
    (psc.type = "psc" /\ ~psc.failed) =>
        /\ psc.short = "none" => AllConverted
        /\ (psc.returned /\ psc.short # "none") =>
              /\ psc.ret = PSC_ERROR_GENERIC
              /\ shared_buf = GuestWrote

\* A large page at frame 10 and the small page after it, frame 522, are
\* converted by one call of 513 pages; the cursor passes both entries and the
\* counters are 512 and 1.
C23_Witness ==
    /\ psc.type = "psc" /\ psc.returned /\ ~psc.failed
    /\ psc.short = "none"
    /\ psc.given.cur_entry = 0 /\ psc.given.end_entry = 1
    /\ psc.given.entries[0] = psc_entry(10, GHCB_MSR_PSC_OP_PRIVATE, 1, 0)
    /\ psc.calls = <<[start |-> 40960, size |-> 513 * 4096,
                      to_private |-> TRUE]>>
    /\ psc.ret = ZeroLen
    /\ shared_buf.cur_entry = 2
    /\ shared_buf.entries[0].cur_page = 512
    /\ shared_buf.entries[1].cur_page = 1

\* C24: when a conversion call fails in the batch handler, the result field
\* is the sentinel 0x100 << 32, the failed call is the last call of the
\* invocation, the cursor of the descriptor is the index of the first entry
\* of the failed run, i.e. the cursor the guest gave advanced by the entries
\* of the runs converted before (and this is the cursor the guest finds when
\* the descriptor is written back), and the calls made before the failed one
\* stand: the handler makes no call that reverts them.
C24_FailureStopsAtFailedRun ==
    (psc.type = "psc" /\ psc.failed) =>
        LET k == Len(psc.calls)
            before == 1..(k - 1)
        IN  /\ k >= 1 /\ Len(psc.runs) = k
            /\ psc.failed_call = k
            /\ psc.ret = PSC_ERROR_GENERIC
            /\ psc.desc.cur_entry = psc.runs[k].first
            /\ psc.runs[1].first = psc.given.cur_entry
            /\ \A c \in before :
                 psc.runs[c + 1].first =
                     (psc.runs[c].first + psc.runs[c].n) % HdrMod
            /\ psc.wrote_back => shared_buf.cur_entry = psc.runs[k].first
            /\ psc.returned => psc.rc = 0

\* Frame 10 is converted to private, the conversion of frame 20 to shared
\* fails: the guest finds the sentinel and the cursor on entry 1.
C24_Witness ==
    /\ psc.type = "psc" /\ psc.returned /\ psc.failed /\ psc.wrote_back
    /\ psc.given.cur_entry = 0 /\ psc.given.end_entry = 1
    /\ psc.given.entries[0] = psc_entry(10, GHCB_MSR_PSC_OP_PRIVATE, 0, 0)
    /\ psc.given.entries[1] = psc_entry(20, GHCB_MSR_PSC_OP_SHARED, 0, 0)
    /\ psc.calls = <<[start |-> 40960, size |-> 4096, to_private |-> TRUE],
                     [start |-> 81920, size |-> 4096, to_private |-> FALSE]>>
    /\ psc.failed_call = 2
    /\ psc.ret = PSC_ERROR_GENERIC
    /\ shared_buf.cur_entry = 1

\* The guest's buffer holds the handler's descriptor: its cursor and the
\* progress counter of every entry.
DescriptorWrittenBack ==
    /\ psc.wrote_back
    /\ shared_buf.cur_entry = psc.desc.cur_entry
    /\ \A i \in 0..(MaxPscEntry - 1) :
         shared_buf.entries[i].cur_page = psc.desc.entries[i].cur_page

\* C25 (as claimed): on every return path of the batch handler, a failure to
\* map the shared buffer included, the descriptor with its cursor and progress
\* counters has been written back to the guest's shared buffer.
C25_AlwaysWrittenBack ==
    (psc.type = "psc" /\ psc.returned) => DescriptorWrittenBack

\* C25 (amended): the descriptor is written back on every return path on
\* which both mappings of the shared buffer are complete, whether every
\* conversion succeeded or one failed; when the mapping at entry or the one
\* for the write-back comes back short, nothing is written to the guest's
\* buffer and the result field is the sentinel 0x100 << 32.
C25_WrittenBackWhenMapped ==
    (psc.type = "psc" /\ psc.returned) =>
        /\ psc.short = "none" => DescriptorWrittenBack
        /\ psc.short # "none" =>
              /\ ~psc.wrote_back
              /\ shared_buf = GuestWrote
              /\ psc.ret = PSC_ERROR_GENERIC
        /\ psc.short = "first" => psc.calls = <<>>

\* A conversion failed after one had succeeded and the descriptor was written
\* back: the guest finds the advanced cursor and the counters of both runs.
C25_Witness ==
    /\ psc.type = "psc" /\ psc.returned /\ psc.failed
    /\ psc.short = "none" /\ psc.wrote_back
    /\ Len(psc.calls) = 2
    /\ psc.given.cur_entry = 0
    /\ shared_buf.cur_entry = 1
    /\ shared_buf.entries[0].cur_page = 1
    /\ shared_buf # psc.given

\* C26: an MSR-based page-state-change request makes exactly one call of
\* kvm_convert_memory, for one base page (TARGET_PAGE_SIZE bytes) at the
\* given address, to private if and only if the operation is the to-private
\* code, and the result field given to the guest is the status that call
\* returned.
C26_MsrConvertsOnePage ==
    psc.type = "psc_msr" =>
        /\ psc.returned
        /\ Len(psc.calls) = 1
        /\ psc.calls[1].start = psc.msr.gpa
        /\ psc.calls[1].size = TARGET_PAGE_SIZE
        /\ psc.calls[1].to_private <=>
               (psc.msr.op = KVM_USER_VMGEXIT_PSC_MSR_OP_PRIVATE)
        /\ AsInt(psc.msr_ret) = psc.status
        /\ psc.msr_ret = ToU32(psc.status)

\* The page at 0xb000 was asked to become shared (operation 2), the
\* conversion returned -EINVAL, and the guest reads 0xffffffea.
C26_Witness ==
    /\ psc.type = "psc_msr" /\ psc.returned
    /\ psc.msr = [gpa |-> 45056, op |-> GHCB_MSR_PSC_OP_SHARED]
    /\ psc.calls = <<[start |-> 45056, size |-> 4096, to_private |-> FALSE]>>
    /\ psc.status = -22
    /\ psc.msr_ret = [hi16 |-> 65535, lo16 |-> 65514]

\* C27 (as claimed): for the MSR-based and for the batch page-state-change
\* request, a failure of kvm_convert_memory is reported through the result
\* field only, and the VM-exit handler returns 0 to its caller.
C27_ConversionFailureReturnsZero ==
    (psc.type \in {"psc", "psc_msr"} /\ psc.returned /\ psc.failed) =>
        /\ psc.rc = 0
        /\ psc.type = "psc" => psc.ret = PSC_ERROR_GENERIC
        /\ psc.type = "psc_msr" => AsInt(psc.msr_ret) = psc.status

\* The bundle of an extended guest request holds in whole pages.
PagesHolding(sz) == (sz + TARGET_PAGE_SIZE - 1) \div TARGET_PAGE_SIZE

\* C28: an extended guest request on an SNP guest with no certificate bundle
\* path configured reports success (result 0) with no output: nothing is
\* written to the guest's buffer, which is not even mapped, and the page count
\* the guest supplied is left unchanged.
C28_NoCertsPathIsSuccess ==
    (ext_req.handled /\ sev_snp_enabled /\ ~ext_req.bundle.path) =>
        /\ alive
        /\ ext_req.rc = 0
        /\ ext_req.vmm_ret = U32(0, 0)
        /\ ext_req.copied = 0
        /\ ext_req.maps = 0
        /\ ext_req.npages = ext_req.given_npages

\* The request of an SNP guest with a buffer of two pages and no path.
C28_Witness ==
    /\ ext_req.handled /\ sev_snp_enabled /\ ~ext_req.bundle.path
    /\ ext_req.given_npages = 2 /\ ext_req.npages = 2
    /\ ext_req.vmm_ret = U32(0, 0)

\* C29 (as claimed): when the guest's buffer of npages whole pages is smaller
\* than the bundle, the handler reports the length error, writes nothing and
\* sets the page count to the smallest number of whole pages that holds the
\* bundle; a buffer of 1 page with a bundle of exactly 2 pages asks for 2.
C29_ShortBufferAsksForCeiling ==
    (/\ ext_req.handled /\ sev_snp_enabled
     /\ ext_req.bundle.path /\ ext_req.bundle.readable
     /\ ext_req.given_npages * TARGET_PAGE_SIZE < ext_req.bundle.sz) =>
        /\ ext_req.rc = 0
        /\ ext_req.vmm_ret = ToU32(SNP_EXT_REQ_ERROR_INVALID_LEN)
        /\ ext_req.copied = 0
        /\ ext_req.npages = PagesHolding(ext_req.bundle.sz)

(***************************************************************************)
(* Properties of the kernel hashes table.                                  *)
(***************************************************************************)
\* The buffer the table was built in: the staging buffer for an SNP guest,
\* the hashes area of the guest's memory otherwise.
HashesDestination ==
    IF sev_snp_enabled THEN hashes.kernel_hashes_data ELSE hashes.area

\* C30: once the hash table has been built, every padding byte of the padded
\* table is zero, for every input size and whatever the destination held
\* before; the padding fills the table up to a multiple of 16 bytes.
C30_PaddingIsZero ==
    hashes.built =>
        /\ DOMAIN HashesDestination.padding = 1..SizeofPadding
        /\ \A i \in 1..SizeofPadding : HashesDestination.padding[i] = 0
        /\ HashesDestination.ht.len = SizeofSevHashTable
        /\ (SizeofSevHashTable + SizeofPadding) % 16 = 0
        /\ SizeofPadding < 16

\* The table built in the memory of a non-SNP guest whose hashes area held
\* 0xff in every padding byte.
C30_Witness ==
    /\ hashes.built /\ ~sev_snp_enabled
    /\ \A i \in 1..SizeofPadding : hashes.area_before.padding[i] = 255
    /\ \A i \in 1..SizeofPadding : hashes.area.padding[i] = 0
    /\ hashes.area.ht.guid = "sev_hash_table_header_guid"
    /\ SizeofPadding = 8

\* C31: whenever the SNP finish queues the kernel-hashes metadata page, the
\* page is queued with the normal (measured) type exactly if kernel_hashes
\* is set; with it set the page then holds the staged table and zero bytes
\* elsewhere, without it no table was built or staged, the page is left as
\* it was and it is queued with the zero type.
C31_KernelHashesPageFollowsOptIn ==
    [][\A e \in SnpFinishEnvs :
          (sev_snp_enabled /\ FinishNeeded /\ e.present
           /\ sev_vm_state_change(TRUE, e))
          => \A i \in 1..Len(e.descs) :
                (/\ e.descs[i] = "KERNEL_HASHES"
                 /\ Len(launch_update') >= Len(launch_update) + i)
                => LET data == launch_update'[Len(launch_update) + i]
                   IN  /\ data.gpa = DescBase(i)
                       /\ data.type = "NORMAL" <=> kernel_hashes
                       /\ data.type = "ZERO" <=> ~kernel_hashes
                       /\ kernel_hashes
                          => /\ hashes.data_set
                             /\ hashes'.area = hashes.kernel_hashes_data
                             /\ hashes'.page_rest = "zero"
                       /\ ~kernel_hashes
                          => /\ ~hashes.built /\ ~hashes.data_set
                             /\ hashes' = hashes]_vars

\* C31 witness: a guest with kernel_hashes runs; its kernel-hashes page was
\* queued as a normal page and holds the table the loader built.
C31_Witness ==
    /\ sev_snp_enabled /\ kernel_hashes /\ state = SEV_STATE_RUNNING
    /\ \E i \in 1..Len(launch_update) :
          /\ launch_update[i].type = "NORMAL"
          /\ launch_update[i].gpa = DescBase(2)
    /\ hashes.built
    /\ hashes.area = hashes.kernel_hashes_data
    /\ hashes.area.ht.guid = "sev_hash_table_header_guid"
    /\ hashes.page_rest = "zero"

\* C32: when an operation that maps guest memory has returned (the hashes
\* population, the batch page-state-change handler, the extended guest
\* request), it has released every mapping it acquired.
C32_EveryMappingReleased ==
    /\ hashes.called => hashes.unmaps = hashes.maps
    /\ (psc.type = "psc" /\ psc.returned) => psc.unmaps = psc.maps
    /\ (ext_req.handled /\ alive) => ext_req.unmaps = ext_req.maps

\* C33: when a conversion of the batch handler failed and the descriptor was
\* written back, the cursor still points at the first entry of the failed
\* run, the entries of that run carry their full page count as progress
\* counter, and the entries after the run carry the counter the guest
\* supplied.
C33_FailedRunMarkedDone ==
    (psc.type = "psc" /\ psc.returned /\ psc.failed /\ psc.wrote_back)
    => LET run == psc.runs[Len(psc.runs)]
       IN  /\ shared_buf.cur_entry = run.first
           /\ \A i \in 0..(MaxPscEntry - 1) :
                 /\ (run.first <= i /\ i < run.first + run.n)
                    => shared_buf.entries[i].cur_page =
                           PageCount(psc.given.entries[i])
                 /\ i >= run.first + run.n
                    => shared_buf.entries[i].cur_page =
                           psc.given.entries[i].cur_page

\* C34: whatever header the guest supplies, the batch handler reads and
\* writes only entries of the array desc->entries, i.e. indexes below
\* VMGEXIT_PSC_MAX_ENTRY (MaxPscEntry here).
C34_AccessesStayInArray ==
    psc.type = "psc" => ~psc.oob_read /\ ~psc.oob_write

\* C35: the batch handler returns for every header the guest supplies when
\* no conversion fails: its loop is never caught repeating a descriptor.
C35_HandlerTerminates ==
    (psc.type = "psc" /\ ~psc.failed) => ~psc.hang

\* C36: a non-SNP guest in state LAUNCH_SECRET or RUNNING has a stored
\* launch measurement, so that the measurement query returns it.
C36_MeasuredBeforeSecretAndRunning ==
    (~sev_snp_enabled
     /\ (state = SEV_STATE_LAUNCH_SECRET \/ state = SEV_STATE_RUNNING))
    => /\ measurement # 0
       /\ sev_get_launch_measurement # 0

\* What the loop of the batch handler computes from the descriptor the guest
\* supplied at entry alone, with the same answers of the host.
PscFromEntryCopy(junk, fail_at) ==
    psc_loop([NoPsc EXCEPT !.type = "psc", !.given = psc.given,
                           !.desc = psc.given], junk, fail_at, {})

\* The conversion calls, the cursor, the progress counters and the result of
\* the invocation are those computed from the descriptor supplied at entry.
PscUninfluenced ==
    LET s == PscFromEntryCopy(psc.junk, psc.fail_at)
    IN  /\ psc.calls = s.calls
        /\ psc.runs = s.runs
        /\ psc.desc = s.desc
        /\ psc.failed = s.failed
        /\ psc.ret = (IF psc.short = "second" THEN PSC_ERROR_GENERIC
                      ELSE s.ret)

\* C37 as claimed: a write the guest makes to the shared buffer after the
\* copy made at entry has no influence on the conversions, the cursor and the
\* result, and the buffer holds the handler's descriptor when the handler
\* returns.
C37_RacingWriteOverwritten ==
    (psc.type = "psc" /\ psc.returned /\ psc.raced)
    => /\ PscUninfluenced
       /\ psc.wrote_back
       /\ shared_buf = psc.desc

\* C37 amended: the same, the overwriting being claimed for the returns on
\* which the second mapping had the full length; when it is short the buffer
\* holds what the guest wrote.
C37_RacingWriteOverwrittenWhenMapped ==
    (psc.type = "psc" /\ psc.returned /\ psc.raced)
    => /\ PscUninfluenced
       /\ psc.short = "none"
          => psc.wrote_back /\ shared_buf = psc.desc
       /\ psc.short = "second"
          => ~psc.wrote_back /\ shared_buf = GuestWrote

\* C37 witness: the guest asked for frames 10 and 11 to become private and
\* wrote another request into the buffer while the handler ran; one call
\* converted the two frames and the buffer holds the handler's descriptor
\* with the cursor behind the two entries.
C37_Witness ==
    /\ psc.type = "psc" /\ psc.returned /\ psc.raced /\ psc.wrote_back
    /\ psc.calls = <<[start |-> 10 * 4096, size |-> 2 * 4096,
                      to_private |-> TRUE]>>
    /\ shared_buf.cur_entry = 2
    /\ shared_buf.entries[0].gfn = 10
    /\ shared_buf # RacingWrite

\* C38: when an extended guest request has copied the certificate bundle and
\* reported success, the number of bytes copied is the length of the bundle;
\* the copy never reads beyond the bundle, so no request ends in a fault.
C38_CopiesBundleLength ==
    /\ (ext_req.handled /\ alive /\ ext_req.maps = 1
        /\ ext_req.vmm_ret = ToU32(0))
       => ext_req.copied = ext_req.bundle.sz
    /\ ext_req.handled => alive

\* C39: every conversion call of the batch handler to private is made for
\* entries whose operation is GHCB_MSR_PSC_OP_PRIVATE, every call to shared
\* for entries whose operation is GHCB_MSR_PSC_OP_SHARED: an entry with
\* another operation code is in no call.
C39_OnlyNamedOperationsConvert ==
    psc.type = "psc"
    => \A k \in 1..Len(psc.calls) :
          \A i \in 0..(MaxPscEntry - 1) :
             (psc.runs[k].first <= i /\ i < psc.runs[k].first + psc.runs[k].n)
             => psc.given.entries[i].operation =
                    (IF psc.calls[k].to_private THEN GHCB_MSR_PSC_OP_PRIVATE
                     ELSE GHCB_MSR_PSC_OP_SHARED)

\* C40: sev_kvm_init returns failure exactly when it has set the caller's
\* error object: every failure path sets it, success leaves it unset.
C40_InitFailureSetsErrp ==
    last.op = "init" => (last.rc # 0 <=> last.err = "errp")

====
